---- MODULE Spec2Model ----
(***************************************************************************)
(* A model of lando: the API Gateway event decoder (request.rs), the      *)
(* request assembler (From<GatewayRequest> for http::Request<Body>), the   *)
(* request extension accessors (ext.rs) and the gateway handler wrapper    *)
(* (lib.rs).                                                               *)
(*                                                                         *)
(* Text is modelled as a sequence of one-character strings, so that the    *)
(* conversions the code applies (header-name normalisation, URI parsing,   *)
(* base64 decoding) are computed character by character.  A byte that has  *)
(* no convenient form is written as a token: "<TAB>", "<LF>", "<DEL>",     *)
(* "<DQUOTE>", "<BSLASH>", "<BTICK>", "<E9>" (a byte >= 0x80).             *)
(***************************************************************************)
EXTENDS Integers, Sequences, FiniteSets, TLC

VARIABLES pc, event, gw, req, invoked, result, reply, outcome,
          source, converted, serialized, parsed, wire,
          builder, arcs, handles, iters, observed

vars == <<pc, event, gw, req, invoked, result, reply, outcome,
          source, converted, serialized, parsed, wire,
          builder, arcs, handles, iters, observed>>

(***************************************************************************)
(* Bounds of the model.                                                    *)
(***************************************************************************)
MaxBodyLen == 4
MaxPathLen == 2
MaxHeaders == 2
MaxParams == 2
MaxTextLen == 2
MaxBytesLen == 3
MaxHandles == 2
MaxIters == 1

(***************************************************************************)
(* Characters.                                                             *)
(***************************************************************************)
LowerSeq == <<"a","b","c","d","e","f","g","h","i","j","k","l","m",
              "n","o","p","q","r","s","t","u","v","w","x","y","z">>
UpperSeq == <<"A","B","C","D","E","F","G","H","I","J","K","L","M",
              "N","O","P","Q","R","S","T","U","V","W","X","Y","Z">>
DigitSeq == <<"0","1","2","3","4","5","6","7","8","9">>

Range(s) == {s[i] : i \in 1..Len(s)}
IndexOf(s, c) == CHOOSE i \in 1..Len(s) : s[i] = c

Lower == Range(LowerSeq)
Upper == Range(UpperSeq)
Digit == Range(DigitSeq)

\* the printable ASCII characters other than letters and digits (0x20..0x7E)
Punct == {" ","!","<DQUOTE>","#","$","%","&","'","(",")","*","+",",","-",".",
          "/",":",";","<","=",">","?","@","[","<BSLASH>","]","^","_","<BTICK>","{","|",
          "}","~"}
VisibleAscii == Lower \cup Upper \cup Digit \cup Punct

\* RFC 7230 token characters
TokenChars == Lower \cup Upper \cup Digit \cup
              {"!","#","$","%","&","'","*","+","-",".","^","_","<BTICK>","|","~"}

None == [tag |-> "none"]

SeqsUpTo(S, n) == UNION {[1..k -> S] : k \in 0..n}

(***************************************************************************)
(* JSON values of the event (serde_json::Value).  An object is the         *)
(* sequence of its entries in iteration order; its keys are distinct.      *)
(***************************************************************************)
Absent == [t |-> "absent"]
JNull == [t |-> "null"]
JStr(s) == [t |-> "str", s |-> s]
JNum(n) == [t |-> "num", n |-> n]
JBool(b) == [t |-> "bool", b |-> b]
JObj(es) == [t |-> "obj", es |-> es]
JCtx(c) == [t |-> "ctx", c |-> c]

Ok(v) == [ok |-> TRUE, v |-> v]
Err(e) == [ok |-> FALSE, err |-> e]

Some(v) == [some |-> TRUE, v |-> v]
NoneOpt == [some |-> FALSE]

(***************************************************************************)
(* http::header::HeaderName and HeaderValue, as request.rs uses them.      *)
(***************************************************************************)
ToLowerChar(c) == IF c \in Upper THEN LowerSeq[IndexOf(UpperSeq, c)] ELSE c

\* key.parse::<HeaderName>(): a non-empty token, stored in lower case
ParseHeaderNameUnnormalised(k) ==
    IF k = <<>> \/ \E i \in 1..Len(k) : k[i] \notin TokenChars
    THEN Err(<<"invalid HTTP header name">>)
    ELSE Ok(k)

ParseHeaderName(k) ==
    IF k = <<>> \/ \E i \in 1..Len(k) : k[i] \notin TokenChars
    THEN Err(<<"invalid HTTP header name">>)
    ELSE Ok([i \in 1..Len(k) |-> ToLowerChar(k[i])])

\* bytes a HeaderValue may hold: 0x20..0x7E, tab, and 0x80..0xFF
HeaderValueChars == VisibleAscii \cup {"<TAB>", "<E9>"}

\* HeaderValue::from_shared
HeaderValueFromShared(v) ==
    IF \E i \in 1..Len(v) : v[i] \notin HeaderValueChars
    THEN Err(<<"failed to parse header value">>)
    ELSE Ok(v)

\* HeaderValue::to_str: visible ASCII and tab only
HeaderValueToStr(v) ==
    IF \E i \in 1..Len(v) : v[i] \notin VisibleAscii \cup {"<TAB>"}
    THEN Err(<<"failed to convert header to a str">>)
    ELSE Ok(v)

\* HeaderMap::get: the first value appended under the name
HeaderGet(headers, name) ==
    LET hits == SelectSeq(headers, LAMBDA h : h[1] = name)
    IN  IF hits = <<>> THEN NoneOpt ELSE Some(hits[1][2])

HOST == <<"h","o","s","t">>

(***************************************************************************)
(* request.rs: deserialize_headers / HeaderVisitor::visit_map.  The header *)
(* map is the sequence of (name, value) pairs in the order appended.       *)
(***************************************************************************)
\* a visitor that leaves out the entries that are no header
RECURSIVE HeaderVisitMapSkipping(_, _)
HeaderVisitMapSkipping(es, headers) ==
    IF es = <<>> THEN Ok(headers)
    ELSE IF es[1][2].t # "str" THEN Err(<<"invalid type: expected a string">>)
    ELSE IF ParseHeaderName(es[1][1]).ok /\ HeaderValueFromShared(es[1][2].s).ok
    THEN HeaderVisitMapSkipping(Tail(es),
             Append(headers, <<ParseHeaderName(es[1][1]).v, es[1][2].s>>))
    ELSE HeaderVisitMapSkipping(Tail(es), headers)

RECURSIVE HeaderVisitMap(_, _)
HeaderVisitMap(es, headers) ==
    IF es = <<>> THEN Ok(headers)
    ELSE LET key == es[1][1]
             value == es[1][2]
         IN  IF value.t # "str" THEN Err(<<"invalid type: expected a string">>)
             ELSE LET header_name == ParseHeaderName(key)
                      header_value == HeaderValueFromShared(value.s)
                  IN  IF ~header_name.ok THEN Err(header_name.err)
                      ELSE IF ~header_value.ok THEN Err(header_value.err)
                      ELSE HeaderVisitMap(Tail(es),
                               Append(headers, <<header_name.v, header_value.v>>))

deserialize_headers(j) ==
    IF j.t = "obj" THEN HeaderVisitMap(j.es, <<>>)
    ELSE Err(<<"invalid type: expected a HeaderMap<HeaderValue>">>)

(***************************************************************************)
(* request.rs: the handles of a StrMap.  A StrMap is a handle on an        *)
(* Arc<HashMap<String, String>>: the Arc counts its handles and frees the  *)
(* map when the last one is dropped.                                       *)
(***************************************************************************)
\* Arc::new(inner)
Arc_new(inner) == [inner |-> inner, strong |-> 1, freed |-> FALSE]

\* a clone that copies the pointer and leaves the count alone
Arc_clone_uncounted(arc) == arc

\* Arc::clone: one more handle
Arc_clone(arc) == [arc EXCEPT !.strong = @ + 1]

\* Drop for Arc: one handle fewer, and the map is freed with the last one
Arc_drop(arc) ==
    [arc EXCEPT !.strong = @ - 1, !.freed = (arc.strong = 1)]

\* a lookup that answers the empty string for a key that is not there
StrMap_get_or_empty(inner, key) ==
    IF key \in DOMAIN inner THEN [some |-> TRUE, v |-> inner[key]]
    ELSE [some |-> TRUE, v |-> ""]

\* StrMap::get: self.0.get(key).map(|value| value.as_ref())
StrMap_get(inner, key) ==
    IF key \in DOMAIN inner THEN [some |-> TRUE, v |-> inner[key]]
    ELSE [some |-> FALSE]

\* StrMap::is_empty
StrMap_is_empty(inner) == DOMAIN inner = {}

\* StrMap::iter: StrMapIter(self, self.0.keys()), the keys still to come and
\* the pairs handed out so far
StrMap_iter(h, inner) ==
    [handle |-> h, keys |-> DOMAIN inner, yielded |-> <<>>, state |-> "open"]

\* StrMapIter::next when the Keys iterator hands out k (any key still to
\* come, as a HashMap has no order), or when it is exhausted
StrMapIter_next(it, inner, k) ==
    IF it.keys = {} THEN [it EXCEPT !.state = "exhausted"]
    ELSE LET v == StrMap_get(inner, k)
         IN  [it EXCEPT !.keys = @ \ {k},
                        !.yielded = IF v.some THEN Append(@, <<k, v.v>>) ELSE @,
                        !.state = IF v.some THEN "open" ELSE "exhausted"]

(***************************************************************************)
(* request.rs: StrMap and its Deserialize impl; nullable_default.          *)
(* A StrMap is the function from its keys to their values.                 *)
(***************************************************************************)
StrMapDefault == [k \in {} |-> ""]

MapInsert(inner, key, value) ==
    [k \in DOMAIN inner \cup {key} |-> IF k = key THEN value ELSE inner[k]]

\* a visitor that reads one entry ("if let" for "while let")
StrMapVisitMapFirstOnly(es, inner) ==
    IF es = <<>> THEN Ok(inner)
    ELSE IF es[1][2].t # "str" THEN Err(<<"invalid type: expected a string">>)
    ELSE Ok(MapInsert(inner, es[1][1], es[1][2].s))

RECURSIVE StrMapVisitMap(_, _)
StrMapVisitMap(es, inner) ==
    IF es = <<>> THEN Ok(inner)
    ELSE LET key == es[1][1]
             value == es[1][2]
         IN  IF value.t # "str" THEN Err(<<"invalid type: expected a string">>)
             ELSE StrMapVisitMap(Tail(es), MapInsert(inner, key, value.s))

StrMap_deserialize(j) ==
    IF j.t = "obj" THEN StrMapVisitMap(j.es, StrMapDefault)
    ELSE Err(<<"invalid type: expected a StrMap">>)

\* Option::deserialize(..)?.unwrap_or_else(T::default)
nullable_default(j) ==
    IF j.t = "null" THEN Ok(StrMapDefault) ELSE StrMap_deserialize(j)

(***************************************************************************)
(* request.rs: RequestContext and Identity (derive(Deserialize, Default)). *)
(***************************************************************************)
IdentityDefault ==
    [source_ip |-> "", cognito_identity_id |-> NoneOpt,
     cognito_identity_pool_id |-> NoneOpt,
     cognito_authentication_provider |-> NoneOpt,
     cognito_authentication_type |-> NoneOpt, account_id |-> NoneOpt,
     caller |-> NoneOpt, api_key |-> NoneOpt, user |-> NoneOpt,
     user_agent |-> NoneOpt, user_arn |-> NoneOpt]

RequestContextDefault ==
    [account_id |-> "", resource_id |-> "", stage |-> "", request_id |-> "",
     resource_path |-> "", http_method |-> "", api_id |-> "",
     identity |-> IdentityDefault]

DecodeRequestContext(j) ==
    IF j.t = "ctx" THEN Ok(j.c)
    ELSE Err(<<"invalid type: expected struct RequestContext">>)

(***************************************************************************)
(* request.rs: GatewayRequest (derive(Deserialize), rename_all camelCase). *)
(***************************************************************************)
DecodeStr(j) ==
    IF j.t = "str" THEN Ok(j.s) ELSE Err(<<"invalid type: expected a string">>)

\* Option<Cow<str>>
DecodeOptStr(j) ==
    IF j.t = "null" THEN Ok(NoneOpt)
    ELSE IF j.t = "str" THEN Ok(Some(j.s))
    ELSE Err(<<"invalid type: expected a string">>)

DecodeBool(j) ==
    IF j.t = "bool" THEN Ok(j.b) ELSE Err(<<"invalid type: expected a boolean">>)

\* the keys of the event object in serde_json's iteration order
WireOrder == <<"body", "headers", "httpMethod", "isBase64Encoded", "path",
               "pathParameters", "queryStringParameters", "requestContext",
               "stageVariables">>

\* the fields of GatewayRequest in declaration order
FieldOrder == <<"path", "httpMethod", "headers", "queryStringParameters",
                "pathParameters", "stageVariables", "body", "isBase64Encoded",
                "requestContext">>

\* the decoder of a field that is present in the event
FieldDecode(f, j) ==
    CASE f \in {"path", "httpMethod"} -> DecodeStr(j)
      [] f = "headers" -> deserialize_headers(j)
      [] f \in {"queryStringParameters", "pathParameters", "stageVariables"} ->
             nullable_default(j)
      [] f = "body" -> DecodeOptStr(j)
      [] f = "isBase64Encoded" -> DecodeBool(j)
      [] f = "requestContext" -> DecodeRequestContext(j)

\* the value of a field that is missing from the event: an Option field is
\* None, a #[serde(default)] field is its default, and every other field,
\* those with deserialize_with included, is a "missing field" error
FieldMissing(f) ==
    CASE f = "body" -> Ok(NoneOpt)
      [] f = "isBase64Encoded" -> Ok(FALSE)
      [] OTHER -> Err(<<"missing field", f>>)

FieldValue(ev, f) ==
    IF ev[f] = Absent THEN FieldMissing(f) ELSE FieldDecode(f, ev[f])

\* serde_json::from_value::<GatewayRequest>(event)
GatewayRequest_deserialize(ev) ==
    LET bad == SelectSeq(WireOrder,
                   LAMBDA f : ev[f] # Absent /\ ~FieldDecode(f, ev[f]).ok)
        missing == SelectSeq(FieldOrder,
                       LAMBDA f : ev[f] = Absent /\ ~FieldMissing(f).ok)
    IN  IF bad # <<>> THEN Err(<<bad[1]>> \o FieldDecode(bad[1], ev[bad[1]]).err)
        ELSE IF missing # <<>> THEN Err(FieldMissing(missing[1]).err)
        ELSE Ok([path |-> FieldValue(ev, "path").v,
                 http_method |-> FieldValue(ev, "httpMethod").v,
                 headers |-> FieldValue(ev, "headers").v,
                 query_string_parameters |->
                     FieldValue(ev, "queryStringParameters").v,
                 path_parameters |-> FieldValue(ev, "pathParameters").v,
                 stage_variables |-> FieldValue(ev, "stageVariables").v,
                 body |-> FieldValue(ev, "body").v,
                 is_base64_encoded |-> FieldValue(ev, "isBase64Encoded").v,
                 request_context |-> FieldValue(ev, "requestContext").v])

(***************************************************************************)
(* body.rs: Body and its From impls.  Bytes are numbers 0..255.            *)
(***************************************************************************)
\* the printable ASCII characters in code order, 0x20 first
AsciiSeq == <<" ","!","<DQUOTE>","#","$","%","&","'","(",")","*","+",",","-",
              ".","/">> \o DigitSeq \o <<":",";","<","=",">","?","@">> \o
            UpperSeq \o <<"[","<BSLASH>","]","^","_","<BTICK>">> \o LowerSeq \o
            <<"{","|","}","~">>

\* the UTF-8 bytes of one character
Utf8Char(c) ==
    CASE c \in Range(AsciiSeq) -> <<31 + IndexOf(AsciiSeq, c)>>
      [] c = "<TAB>" -> <<9>>
      [] c = "<LF>" -> <<10>>
      [] c = "<DEL>" -> <<127>>
      [] c = "<E9>" -> <<195, 169>>

\* str::as_bytes / Bytes::from(String)
RECURSIVE Utf8(_)
Utf8(str) == IF str = <<>> THEN <<>> ELSE Utf8Char(Head(str)) \o Utf8(Tail(str))

BodyEmpty == [kind |-> "Empty"]
BodyText(bytes) == [kind |-> "Text", bytes |-> bytes]
BodyBinary(bytes) == [kind |-> "Binary", bytes |-> bytes]

\* impl From<()> for Body
Body_from_unit == BodyEmpty

\* impl From<String> for Body, impl From<&str> for Body
Body_from_string(str) == BodyText(Utf8(str))

\* impl From<Vec<u8>> for Body, impl From<&[u8]> for Body
Body_from_vec(b) == BodyBinary(b)

\* impl Default for Body
Body_default == BodyEmpty

\* impl From<Cow<'static, str>> for Body
Body_from_cow_str(cow) ==
    CASE cow.variant = "Borrowed" -> Body_from_string(cow.s)
      [] cow.variant = "Owned" -> Body_from_string(cow.s)

\* a conversion of Cow<[u8]> that takes the bytes for text
Body_from_cow_bytes_as_text(cow) == BodyText(cow.b)

\* impl From<Cow<'static, [u8]>> for Body
Body_from_cow_bytes(cow) ==
    CASE cow.variant = "Borrowed" -> Body_from_vec(cow.b)
      [] cow.variant = "Owned" -> Body_from_vec(cow.b)

\* the types of the values that Body::from takes, by what they denote
TextTypes == {"&str", "String", "Cow<str>"}
BytesTypes == {"&[u8]", "Vec<u8>", "Cow<[u8]>"}

\* Body::from(source), and Body::default() for the source "default"
Body_from(src) ==
    CASE src.type = "()" -> Body_from_unit
      [] src.type = "default" -> Body_default
      [] src.type \in {"&str", "String"} -> Body_from_string(src.s)
      [] src.type = "Cow<str>" -> Body_from_cow_str(src)
      [] src.type \in {"&[u8]", "Vec<u8>"} -> Body_from_vec(src.b)
      [] src.type = "Cow<[u8]>" -> Body_from_cow_bytes(src)

(***************************************************************************)
(* base64 (standard alphabet), as body.rs and request.rs use it.           *)
(***************************************************************************)
B64Seq == UpperSeq \o LowerSeq \o DigitSeq \o <<"+","/">>
B64Val(c) == IndexOf(B64Seq, c) - 1
\* the symbols of the URL-safe alphabet: '-' and '_' for '+' and '/'
B64CharUrlSafe(v) ==
    CASE v = 62 -> "-"
      [] v = 63 -> "_"
      [] OTHER -> B64Seq[v + 1]

B64Char(v) == B64Seq[v + 1]

\* the bytes that a run of 6-bit symbols holds; the bits left over in the
\* last symbol are dropped
RECURSIVE B64Bytes(_)
B64Bytes(vs) ==
    CASE Len(vs) >= 4 ->
             <<vs[1] * 4 + vs[2] \div 16,
               (vs[2] % 16) * 16 + vs[3] \div 4,
               (vs[3] % 4) * 64 + vs[4]>> \o B64Bytes(SubSeq(vs, 5, Len(vs)))
      [] Len(vs) = 3 ->
             <<vs[1] * 4 + vs[2] \div 16, (vs[2] % 16) * 16 + vs[3] \div 4>>
      [] Len(vs) = 2 -> <<vs[1] * 4 + vs[2] \div 16>>
      [] OTHER -> <<>>

\* the bits of the last symbol that no byte receives
B64TrailingBits(vs) ==
    CASE Len(vs) % 4 = 3 -> vs[Len(vs)] % 4
      [] Len(vs) % 4 = 2 -> vs[Len(vs)] % 16
      [] OTHER -> 0

\* base64::decode: the outcomes the base64 crate can produce.  Symbols come
\* first and '=' padding, if any, last; a '=' may only stand in the last two
\* places of a quad; one symbol alone in the last quad is no byte.  A last
\* symbol with bits set that no byte receives is InvalidLastSymbol from
\* base64 0.10 on and is decoded, dropping the bits, before that.
base64_decode(str) ==
    LET pads == {i \in 1..Len(str) : str[i] = "="}
        n == IF pads = {} THEN Len(str)
             ELSE (CHOOSE i \in pads : \A j \in pads : i <= j) - 1
        vs == [i \in 1..n |-> B64Val(str[i])]
    IN  IF \/ \E i \in 1..n : str[i] \notin Range(B64Seq)
           \/ \E i \in (n + 1)..Len(str) : str[i] # "=" \/ (i - 1) % 4 < 2
           \/ n % 4 = 1
        THEN {Err(<<"base64 decode error">>)}
        ELSE IF B64TrailingBits(vs) # 0
        THEN {Err(<<"base64 decode error">>), Ok(B64Bytes(vs))}
        ELSE {Ok(B64Bytes(vs))}

\* Base64Display::standard: the padded encoding of the bytes
RECURSIVE Base64Display(_)
Base64Display(b) ==
    CASE Len(b) >= 3 ->
             <<B64Char(b[1] \div 4),
               B64Char((b[1] % 4) * 16 + b[2] \div 16),
               B64Char((b[2] % 16) * 4 + b[3] \div 64),
               B64Char(b[3] % 64)>> \o Base64Display(SubSeq(b, 4, Len(b)))
      [] Len(b) = 2 ->
             <<B64Char(b[1] \div 4),
               B64Char((b[1] % 4) * 16 + b[2] \div 16),
               B64Char((b[2] % 16) * 4), "=">>
      [] Len(b) = 1 ->
             <<B64Char(b[1] \div 4), B64Char((b[1] % 4) * 16), "=", "=">>
      [] OTHER -> <<>>

(***************************************************************************)
(* http::Method and http::Uri, as the request builder of request.rs uses   *)
(* them on the method and on "https://{host}{path}".                       *)
(***************************************************************************)
MethodChars == Lower \cup Upper \cup Digit \cup
               {"!","*","+","-",".","^","_","<BTICK>","|","~"}

\* Method::from_bytes: a non-empty token, kept as written
MethodFromBytes(m) ==
    IF m = <<>> \/ \E i \in 1..Len(m) : m[i] \notin MethodChars
    THEN Err(<<"invalid HTTP method">>)
    ELSE Ok(m)

UriChars == Lower \cup Upper \cup Digit \cup
            {"!","#","$","&","'","(",")","*","+",",","-",".","/",":",";","=",
             "?","@","[","]","_","~"}

\* the places of the characters of cs in str
Places(str, cs) == {i \in 1..Len(str) : str[i] \in cs}
Least(S) == CHOOSE i \in S : \A j \in S : i <= j
Greatest(S) == CHOOSE i \in S : \A j \in S : j <= i

\* Authority::parse: the length of the authority at the head of str
AuthorityParse(str) ==
    LET stops == Places(str, {"/", "?", "#"})
        end == IF stops = {} THEN Len(str) ELSE Least(stops) - 1
        auth == SubSeq(str, 1, end)
        resets == Places(auth, {"]", "@"})
        from == IF resets = {} THEN 0 ELSE Greatest(resets)
        colon_cnt == Cardinality({i \in Places(auth, {":"}) : i > from})
        ats == Places(auth, {"@"})
    IN  IF \E i \in 1..end : auth[i] \notin UriChars
        THEN Err(<<"invalid uri character">>)
        ELSE IF (Places(auth, {"["}) # {}) # (Places(auth, {"]"}) # {})
        THEN Err(<<"invalid authority">>)
        ELSE IF colon_cnt > 1 THEN Err(<<"invalid authority">>)
        ELSE IF end > 0 /\ ats # {} /\ Greatest(ats) = end
        THEN Err(<<"invalid authority">>)
        ELSE Ok(end)

\* PathAndQuery::from_shared: the text up to a '#', which starts the
\* fragment that a Uri does not keep; query is the place of the first '?'
PathAndQueryParse(str) ==
    LET hashes == Places(str, {"#"})
        end == IF hashes = {} THEN Len(str) ELSE Least(hashes) - 1
        data == SubSeq(str, 1, end)
        marks == Places(data, {"?"})
    IN  IF \E i \in 1..end : data[i] \notin UriChars \cup {"%"}
        THEN Err(<<"invalid uri character">>)
        ELSE Ok([data |-> data,
                 query |-> IF marks = {} THEN 0 ELSE Least(marks)])

HttpsScheme == <<"h","t","t","p","s",":","/","/">>

\* Uri::from_shared on "https://" followed by rest (parse_full): an absolute
\* URI must have an authority
UriParseHttps(rest) ==
    LET authority_end == AuthorityParse(rest)
    IN  IF ~authority_end.ok THEN authority_end
        ELSE IF authority_end.v = 0 THEN Err(<<"invalid format">>)
        ELSE LET pq == PathAndQueryParse(
                           SubSeq(rest, authority_end.v + 1, Len(rest)))
             IN  IF ~pq.ok THEN pq
                 ELSE Ok([scheme |-> "https",
                          authority |-> SubSeq(rest, 1, authority_end.v),
                          data |-> pq.v.data,
                          query |-> pq.v.query])

\* Uri::path: "/" when the path is empty
UriPath(u) ==
    LET ret == IF u.query = 0 THEN u.data ELSE SubSeq(u.data, 1, u.query - 1)
    IN  IF ret = <<>> THEN <<"/">> ELSE ret

\* Uri::query
UriQuery(u) ==
    IF u.query = 0 THEN NoneOpt
    ELSE Some(SubSeq(u.data, u.query + 1, Len(u.data)))

\* impl Display for Uri
UriToString(u) ==
    HttpsScheme \o u.authority \o UriPath(u) \o
    (IF UriQuery(u).some THEN <<"?">> \o UriQuery(u).v ELSE <<>>)

(***************************************************************************)
(* request.rs: impl From<GatewayRequest> for HttpRequest<Body>.            *)
(***************************************************************************)
\* a lookup that takes the last Host value
HostOfLast(headers) ==
    LET hits == SelectSeq(headers, LAMBDA h : h[1] = HOST)
    IN  IF hits = <<>> \/ ~HeaderValueToStr(hits[Len(hits)][2]).ok THEN <<>>
        ELSE hits[Len(hits)][2]

\* headers.get(HOST).map(|val| val.to_str().unwrap_or_default())
\*     .unwrap_or_default()
HostOf(headers) ==
    LET val == HeaderGet(headers, HOST)
    IN  IF ~val.some THEN <<>>
        ELSE IF HeaderValueToStr(val.v).ok THEN HeaderValueToStr(val.v).v
        ELSE <<>>

\* the extensions of a request: a map from the type of an extension to its
\* value
Extensions(g) ==
    [t \in {"QueryStringParameters", "PathParameters", "StageVariables",
            "RequestContext"} |->
        CASE t = "QueryStringParameters" -> g.query_string_parameters
          [] t = "PathParameters" -> g.path_parameters
          [] t = "StageVariables" -> g.stage_variables
          [] t = "RequestContext" -> g.request_context]

NoExtensions == [t \in {} |-> None]

\* the body of the request, given what base64::decode returned
RequestBodyAlwaysText(g, decoded) ==
    IF g.body.some
    THEN Body_from_string(g.body.v)
    ELSE Body_from_unit

RequestBody(g, decoded) ==
    IF g.body.some
    THEN IF g.is_base64_encoded
         THEN Body_from_vec(IF decoded.ok THEN decoded.v ELSE <<>>)
         ELSE Body_from_string(g.body.v)
    ELSE Body_from_unit

\* the conversion: a request, or the panic of
\* .expect("failed to build request") when the builder holds an error
HttpRequest_from(g, decoded) ==
    LET method == MethodFromBytes(g.http_method)
        uri == UriParseHttps(HostOf(g.headers) \o g.path)
    IN  IF ~method.ok THEN Err(<<"failed to build request">> \o method.err)
        ELSE IF ~uri.ok THEN Err(<<"failed to build request">> \o uri.err)
        ELSE Ok([method |-> method.v,
                 uri |-> uri.v,
                 headers |-> g.headers,
                 extensions |-> Extensions(g),
                 body |-> RequestBody(g, decoded)])

(***************************************************************************)
(* ext.rs: impl RequestExt for HttpRequest<Body>.                          *)
(***************************************************************************)
query_string_parameters(r) ==
    IF "QueryStringParameters" \in DOMAIN r.extensions
    THEN r.extensions["QueryStringParameters"]
    ELSE StrMapDefault

path_parameters_from_query(r) ==
    IF "QueryStringParameters" \in DOMAIN r.extensions
    THEN r.extensions["QueryStringParameters"]
    ELSE StrMapDefault

path_parameters(r) ==
    IF "PathParameters" \in DOMAIN r.extensions
    THEN r.extensions["PathParameters"]
    ELSE StrMapDefault

stage_variables(r) ==
    IF "StageVariables" \in DOMAIN r.extensions
    THEN r.extensions["StageVariables"]
    ELSE StrMapDefault

request_context(r) ==
    IF "RequestContext" \in DOMAIN r.extensions
    THEN r.extensions["RequestContext"]
    ELSE RequestContextDefault

(***************************************************************************)
(* lib.rs: IntoResponse, and the response conversion of ext.rs.            *)
(***************************************************************************)
Response(status, headers, body) ==
    [status |-> status, headers |-> headers, body |-> body]

StatusOk == 200

\* Into<Body> for the value a handler returns as the body
IntoBody(b) ==
    CASE b.t = "unit" -> Body_from_unit
      [] b.t = "str" -> Body_from_string(b.v)
      [] b.t = "bytes" -> Body_from_vec(b.v)
      [] b.t = "body" -> b.v

\* a conversion that wraps the body of a Response into a new response
into_response_rewrapping(r) ==
    IF r.t = "response"
    THEN Response(StatusOk, <<>>, IntoBody(r.body))
    ELSE Response(StatusOk, <<>>, IntoBody(r))

\* impl IntoResponse for B where B: Into<Body>, and for Response<B>
into_response(r) ==
    IF r.t = "response"
    THEN Response(r.status, r.headers, IntoBody(r.body))
    ELSE Response(StatusOk, <<>>, IntoBody(r))

\* the inverse of Utf8Char on one byte below 0x80
AsciiChar(b) ==
    CASE b \in 32..126 -> AsciiSeq[b - 31]
      [] b = 9 -> "<TAB>"
      [] b = 10 -> "<LF>"
      [] b = 127 -> "<DEL>"
      [] OTHER -> "<CTL>"

\* String::from_utf8_lossy, on the bytes the model's characters encode to:
\* a byte that starts no character becomes U+FFFD
RECURSIVE Utf8Lossy(_)
Utf8Lossy(b) ==
    CASE b = <<>> -> <<>>
      [] b # <<>> /\ b[1] < 128 -> <<AsciiChar(b[1])>> \o Utf8Lossy(Tail(b))
      [] Len(b) >= 2 /\ b[1] = 195 /\ b[2] = 169 ->
             <<"<E9>">> \o Utf8Lossy(SubSeq(b, 3, Len(b)))
      [] OTHER -> <<"<FFFD>">> \o Utf8Lossy(Tail(b))

\* a collection in which the first pair of a name stays
RECURSIVE CollectHeadersFirstWins(_, _)
CollectHeadersFirstWins(pairs, map) ==
    IF pairs = <<>> THEN map
    ELSE CollectHeadersFirstWins(Tail(pairs),
             IF pairs[1][1] \in DOMAIN map THEN map
             ELSE MapInsert(map, pairs[1][1],
                      IF HeaderValueToStr(pairs[1][2]).ok
                      THEN pairs[1][2] ELSE <<>>))

\* .collect::<HashMap<String, String>>() of the (name, value) pairs: a later
\* pair replaces an earlier one of the same name
RECURSIVE CollectHeaders(_, _)
CollectHeaders(pairs, map) ==
    IF pairs = <<>> THEN map
    ELSE CollectHeaders(Tail(pairs),
             MapInsert(map, pairs[1][1],
                 IF HeaderValueToStr(pairs[1][2]).ok
                 THEN pairs[1][2] ELSE <<>>))

\* a conversion that marks the reply of a Binary body as base64
GatewayResponse_from_flagging_binary(value) ==
    [status_code |-> value.status,
     headers |-> CollectHeaders(value.headers, [k \in {} |-> <<>>]),
     body |-> IF value.body.kind = "Empty" THEN NoneOpt
              ELSE Some(Utf8Lossy(value.body.bytes)),
     is_base64_encoded |-> value.body.kind = "Binary"]

\* impl From<HttpResponse<T>> for GatewayResponse
GatewayResponse_from(value) ==
    [status_code |-> value.status,
     headers |-> CollectHeaders(value.headers, [k \in {} |-> <<>>]),
     body |-> IF value.body.kind = "Empty" THEN NoneOpt
              ELSE Some(Utf8Lossy(value.body.bytes)),
     is_base64_encoded |-> FALSE]

\* a serialization that writes every field, null for a body that is None
GatewayResponse_serialize_every_field(r) ==
    [k \in {"statusCode", "headers", "body", "isBase64Encoded"} |->
        CASE k = "statusCode" -> JNum(r.status_code)
          [] k = "headers" -> r.headers
          [] k = "body" -> IF r.body.some THEN JStr(r.body.v) ELSE JNull
          [] k = "isBase64Encoded" -> JBool(r.is_base64_encoded)]

\* a serialization that writes the flag also when it is false
GatewayResponse_serialize_flag_always(r) ==
    [k \in {"statusCode", "isBase64Encoded"}
            \cup (IF DOMAIN r.headers = {} THEN {} ELSE {"headers"})
            \cup (IF r.body.some THEN {"body"} ELSE {}) |->
        CASE k = "statusCode" -> JNum(r.status_code)
          [] k = "headers" -> r.headers
          [] k = "body" -> JStr(r.body.v)
          [] k = "isBase64Encoded" -> JBool(r.is_base64_encoded)]

\* #[derive(Serialize)] #[serde(rename_all = "camelCase")] of GatewayResponse:
\* the JSON object of the reply, from the names of its fields to their values;
\* a field that skip_serializing_if leaves out is no key of it
GatewayResponse_serialize(r) ==
    [k \in {"statusCode"}
            \cup (IF DOMAIN r.headers = {} THEN {} ELSE {"headers"})
            \cup (IF r.body.some THEN {"body"} ELSE {})
            \cup (IF r.is_base64_encoded THEN {"isBase64Encoded"} ELSE {}) |->
        CASE k = "statusCode" -> JNum(r.status_code)
          [] k = "headers" -> r.headers
          [] k = "body" -> JStr(r.body.v)
          [] k = "isBase64Encoded" -> JBool(r.is_base64_encoded)]

(***************************************************************************)
(* response.rs: the Builder of GatewayResponse, and serde_json::to_string  *)
(* of the struct, character by character.                                  *)
(***************************************************************************)
\* Builder::new(): status 200 and the Default of every other field
Builder_new ==
    [status_code |-> StatusOk,
     headers |-> [k \in {} |-> <<>>],
     body |-> NoneOpt,
     is_base64_encoded |-> FALSE]

Builder_status_code(self, c) == [self EXCEPT !.status_code = c]

\* b.into() of Into<Option<String>>: a String or an Option<String>
Builder_body(self, b) == [self EXCEPT !.body = b]

RECURSIVE Builder_headers(_, _)
Builder_headers(self, hdrs) ==
    IF hdrs = <<>> THEN self
    ELSE Builder_headers(
             [self EXCEPT !.headers = MapInsert(@, hdrs[1][1], hdrs[1][2])],
             Tail(hdrs))

Builder_base64_encoded(self, is) == [self EXCEPT !.is_base64_encoded = is]

Builder_build(self) ==
    [status_code |-> self.status_code,
     headers |-> self.headers,
     body |-> self.body,
     is_base64_encoded |-> self.is_base64_encoded]

\* the literals of JSON
TRUE_LIT == <<"t","r","u","e">>
FALSE_LIT == <<"f","a","l","s","e">>
NULL_LIT == <<"n","u","l","l">>

\* the decimal digits of an unsigned number (itoa)
RECURSIVE Itoa(_)
Itoa(n) ==
    IF n < 10 THEN <<DigitSeq[n + 1]>>
    ELSE Itoa(n \div 10) \o <<DigitSeq[(n % 10) + 1]>>

\* serde_json's format_escaped_str_contents on one character: a quote, a
\* backslash and a control character are escaped, every other goes as it is
EscapeChar(c) ==
    CASE c = "<DQUOTE>" -> <<"<BSLASH>", "<DQUOTE>">>
      [] c = "<BSLASH>" -> <<"<BSLASH>", "<BSLASH>">>
      [] c = "<LF>" -> <<"<BSLASH>", "n">>
      [] c = "<TAB>" -> <<"<BSLASH>", "t">>
      [] c = "<CTL>" -> <<"<BSLASH>", "u", "0", "0", "<HEX>", "<HEX>">>
      [] OTHER -> <<c>>

RECURSIVE EscapeStr(_)
EscapeStr(str) ==
    IF str = <<>> THEN <<>> ELSE EscapeChar(Head(str)) \o EscapeStr(Tail(str))

Quoted(str) == <<"<DQUOTE>">> \o EscapeStr(str) \o <<"<DQUOTE>">>

\* the orders in which a HashMap may hand out its keys
KeyOrders(S) ==
    {o \in [1..Cardinality(S) -> S] : \A i, j \in DOMAIN o : o[i] = o[j] => i = j}

\* the entries of a map, in the order o of its keys, separated by commas
RECURSIVE MapEntriesToString(_, _)
MapEntriesToString(map, o) ==
    IF o = <<>> THEN <<>>
    ELSE Quoted(o[1]) \o <<":">> \o Quoted(map[o[1]])
         \o (IF Len(o) > 1 THEN <<",">> ELSE <<>>)
         \o MapEntriesToString(map, Tail(o))

\* the names of the fields of GatewayResponse under rename_all = "camelCase",
\* in the order of their declaration
ResponseFields == <<"statusCode", "headers", "body", "isBase64Encoded">>

FieldChars(k) ==
    CASE k = "statusCode" -> <<"s","t","a","t","u","s","C","o","d","e">>
      [] k = "headers" -> <<"h","e","a","d","e","r","s">>
      [] k = "body" -> <<"b","o","d","y">>
      [] k = "isBase64Encoded" ->
             <<"i","s","B","a","s","e","6","4","E","n","c","o","d","e","d">>

\* the text of the value of one field of the object obj, for the order o of
\* the keys of the header map
FieldToString(obj, k, o) ==
    CASE k = "headers" -> <<"{">> \o MapEntriesToString(obj[k], o) \o <<"}">>
      [] k # "headers" /\ obj[k].t = "num" -> Itoa(obj[k].n)
      [] k # "headers" /\ obj[k].t = "str" -> Quoted(obj[k].s)
      [] k # "headers" /\ obj[k].t = "bool" ->
             IF obj[k].b THEN TRUE_LIT ELSE FALSE_LIT
      [] k # "headers" /\ obj[k].t = "null" -> NULL_LIT

RECURSIVE FieldsToString(_, _, _)
FieldsToString(obj, ks, o) ==
    IF ks = <<>> THEN <<>>
    ELSE Quoted(FieldChars(ks[1])) \o <<":">> \o FieldToString(obj, ks[1], o)
         \o (IF Len(ks) > 1 THEN <<",">> ELSE <<>>)
         \o FieldsToString(obj, Tail(ks), o)

\* serde_json::to_string(&response): the texts that the response may
\* serialize to, one for each order of the keys of its header map
serde_json_to_string(r) ==
    LET obj == GatewayResponse_serialize(r)
        ks == SelectSeq(ResponseFields, LAMBDA k : k \in DOMAIN obj)
    IN  {<<"{">> \o FieldsToString(obj, ks, o) \o <<"}">> :
            o \in KeyOrders(DOMAIN r.headers)}

(***************************************************************************)
(* serde_json::from_slice and serde_urlencoded::from_bytes, as             *)
(* RequestExt::payload of ext.rs calls them on the bytes of the body, for  *)
(* the two types the tests of ext.rs decode into: HashMap<String, String>  *)
(* and struct Payload { foo: String, baz: usize }.  JSON text is read      *)
(* without escapes, signs, fractions and exponents, which the bodies of    *)
(* the model do not hold.                                                  *)
(***************************************************************************)
\* impl AsRef<[u8]> for Body
Body_as_ref(b) == IF b.kind = "Empty" THEN <<>> ELSE b.bytes

\* std::str::from_utf8, on the bytes the model's characters encode to
RECURSIVE FromUtf8(_)
FromUtf8(b) ==
    CASE b = <<>> -> Ok(<<>>)
      [] b # <<>> /\ b[1] < 128 ->
             LET rest == FromUtf8(Tail(b))
             IN  IF rest.ok THEN Ok(<<AsciiChar(b[1])>> \o rest.v) ELSE rest
      [] Len(b) >= 2 /\ b[1] = 195 /\ b[2] = 169 ->
             LET rest == FromUtf8(SubSeq(b, 3, Len(b)))
             IN  IF rest.ok THEN Ok(<<"<E9>">> \o rest.v) ELSE rest
      [] OTHER -> Err(<<"invalid utf-8 sequence">>)

\* the length of the longest prefix of str that holds characters of cs only
RECURSIVE PrefixLen(_, _)
PrefixLen(str, cs) ==
    IF str = <<>> \/ str[1] \notin cs THEN 0
    ELSE 1 + PrefixLen(Tail(str), cs)

\* the number that a run of decimal digits writes
RECURSIVE DigitsValue(_)
DigitsValue(ds) ==
    IF ds = <<>> THEN 0
    ELSE DigitsValue(SubSeq(ds, 1, Len(ds) - 1)) * 10
         + (IndexOf(DigitSeq, ds[Len(ds)]) - 1)

JArr(xs) == [t |-> "arr", xs |-> xs]

JsonWhitespace == {" ", "<TAB>", "<LF>"}
JsonPunct == {"{", "}", "[", "]", ":", ","}
JsonStringChars == (VisibleAscii \cup {"<DEL>", "<E9>"}) \ {"<DQUOTE>", "<BSLASH>"}

\* tok in front of the tokens of the rest, when the rest has tokens
TokenThen(tok, rest) == IF rest.ok THEN Ok(<<tok>> \o rest.v) ELSE rest

\* the tokens of a JSON text
RECURSIVE JsonTokens(_)
JsonTokens(str) ==
    IF str = <<>> THEN Ok(<<>>)
    ELSE LET c == str[1]
             word == SubSeq(str, 1, PrefixLen(str, Lower))
             digits == SubSeq(str, 1, PrefixLen(str, Digit))
             inner == SubSeq(str, 2, 1 + PrefixLen(Tail(str), JsonStringChars))
         IN  CASE c \in JsonWhitespace -> JsonTokens(Tail(str))
               [] c \in JsonPunct ->
                      TokenThen([k |-> "punct", c |-> c], JsonTokens(Tail(str)))
               [] c = "<DQUOTE>" ->
                      IF Len(str) < Len(inner) + 2 \/
                         str[Len(inner) + 2] # "<DQUOTE>"
                      THEN Err(<<"invalid string">>)
                      ELSE TokenThen([k |-> "str", s |-> inner],
                               JsonTokens(SubSeq(str, Len(inner) + 3, Len(str))))
               [] c \in Digit ->
                      IF Len(digits) > 1 /\ c = "0"
                      THEN Err(<<"invalid number">>)
                      ELSE TokenThen([k |-> "num", n |-> DigitsValue(digits)],
                               JsonTokens(SubSeq(str, Len(digits) + 1, Len(str))))
               [] c \in Lower ->
                      IF word \notin {TRUE_LIT, FALSE_LIT, NULL_LIT}
                      THEN Err(<<"expected ident">>)
                      ELSE TokenThen([k |-> "lit", w |-> word],
                               JsonTokens(SubSeq(str, Len(word) + 1, Len(str))))
               [] OTHER -> Err(<<"expected value">>)

IsPunct(tok, c) == tok.k = "punct" /\ tok.c = c

\* one JSON value at the head of the tokens, and the tokens after it
RECURSIVE ParseValue(_), ParseMembers(_, _), ParseElements(_, _)
ParseValue(toks) ==
    IF toks = <<>> THEN Err(<<"EOF while parsing a value">>)
    ELSE LET tok == toks[1]
             rest == Tail(toks)
         IN  CASE tok.k = "str" -> Ok([v |-> JStr(tok.s), rest |-> rest])
               [] tok.k = "num" -> Ok([v |-> JNum(tok.n), rest |-> rest])
               [] tok.k = "lit" ->
                      Ok([v |-> IF tok.w = NULL_LIT THEN JNull
                                ELSE JBool(tok.w = TRUE_LIT),
                          rest |-> rest])
               [] IsPunct(tok, "{") ->
                      IF rest # <<>> /\ IsPunct(rest[1], "}")
                      THEN Ok([v |-> JObj(<<>>), rest |-> Tail(rest)])
                      ELSE ParseMembers(rest, <<>>)
               [] IsPunct(tok, "[") ->
                      IF rest # <<>> /\ IsPunct(rest[1], "]")
                      THEN Ok([v |-> JArr(<<>>), rest |-> Tail(rest)])
                      ELSE ParseElements(rest, <<>>)
               [] OTHER -> Err(<<"expected value">>)

\* the members of an object after those of es, up to its '}'
ParseMembers(toks, es) ==
    IF Len(toks) < 2 \/ toks[1].k # "str" \/ ~IsPunct(toks[2], ":")
    THEN Err(<<"key must be a string">>)
    ELSE LET val == ParseValue(SubSeq(toks, 3, Len(toks)))
         IN  IF ~val.ok THEN val
             ELSE LET more == Append(es, <<toks[1].s, val.v.v>>)
                      rest == val.v.rest
                  IN  IF rest = <<>>
                      THEN Err(<<"EOF while parsing an object">>)
                      ELSE IF IsPunct(rest[1], "}")
                      THEN Ok([v |-> JObj(more), rest |-> Tail(rest)])
                      ELSE IF IsPunct(rest[1], ",")
                      THEN ParseMembers(Tail(rest), more)
                      ELSE Err(<<"expected comma or closing brace">>)

\* the elements of an array after those of xs, up to its ']'
ParseElements(toks, xs) ==
    LET val == ParseValue(toks)
    IN  IF ~val.ok THEN val
        ELSE LET more == Append(xs, val.v.v)
                 rest == val.v.rest
             IN  IF rest = <<>>
                 THEN Err(<<"EOF while parsing a list">>)
                 ELSE IF IsPunct(rest[1], "]")
                 THEN Ok([v |-> JArr(more), rest |-> Tail(rest)])
                 ELSE IF IsPunct(rest[1], ",")
                 THEN ParseElements(Tail(rest), more)
                 ELSE Err(<<"expected comma or closing bracket">>)

\* the JSON value that the bytes write: one value and nothing after it
JsonParse(b) ==
    LET str == FromUtf8(b)
        toks == JsonTokens(str.v)
        val == ParseValue(toks.v)
    IN  IF ~str.ok THEN str
        ELSE IF ~toks.ok THEN toks
        ELSE IF ~val.ok THEN val
        ELSE IF val.v.rest # <<>> THEN Err(<<"trailing characters">>)
        ELSE Ok(val.v.v)

\* form_urlencoded::parse works on bytes: '%' 37, '&' 38, '+' 43, '=' 61
\* the pieces of b between the bytes equal to sep
RECURSIVE SplitBytes(_, _)
SplitBytes(b, sep) ==
    LET places == {i \in 1..Len(b) : b[i] = sep}
    IN  IF places = {} THEN <<b>>
        ELSE <<SubSeq(b, 1, Least(places) - 1)>> \o
             SplitBytes(SubSeq(b, Least(places) + 1, Len(b)), sep)

\* the value of a hexadecimal digit, -1 for any other byte
HexVal(byte) ==
    CASE byte \in 48..57 -> byte - 48
      [] byte \in 65..70 -> byte - 55
      [] byte \in 97..102 -> byte - 87
      [] OTHER -> -1

\* percent_decode: %XX is the byte XX; a '%' that two hexadecimal digits do
\* not follow stays
RECURSIVE PercentDecode(_)
PercentDecode(b) ==
    IF b = <<>> THEN <<>>
    ELSE IF b[1] = 37 /\ Len(b) >= 3 /\ HexVal(b[2]) >= 0 /\ HexVal(b[3]) >= 0
    THEN <<16 * HexVal(b[2]) + HexVal(b[3])>> \o
         PercentDecode(SubSeq(b, 4, Len(b)))
    ELSE <<b[1]>> \o PercentDecode(Tail(b))

\* form_urlencoded's decode: '+' is a space, then percent-decoding, then
\* String::from_utf8_lossy
FormDecode(b) ==
    Utf8Lossy(PercentDecode([i \in 1..Len(b) |-> IF b[i] = 43 THEN 32 ELSE b[i]]))

\* one name=value piece: the name ends at the first '='
FormPair(piece) ==
    LET eqs == {i \in 1..Len(piece) : piece[i] = 61}
    IN  IF eqs = {} THEN <<FormDecode(piece), <<>>>>
        ELSE <<FormDecode(SubSeq(piece, 1, Least(eqs) - 1)),
               FormDecode(SubSeq(piece, Least(eqs) + 1, Len(piece)))>>

\* form_urlencoded::parse: the pairs of the non-empty pieces between '&'
FormParse(b) ==
    LET pieces == SelectSeq(SplitBytes(b, 38), LAMBDA p : p # <<>>)
    IN  [i \in 1..Len(pieces) |-> FormPair(pieces[i])]

\* the types that payload::<D> decodes into
HashMapType == "HashMap<String, String>"
PayloadType == "Payload"
PayloadTypes == {HashMapType, PayloadType}
HashMapNew == [k \in {} |-> <<>>]
FOO == <<"f","o","o">>
BAZ == <<"b","a","z">>

\* a String from a value: a JSON string, or the text of a form value
AsString(format, v) ==
    IF format = "form" THEN Ok(v)
    ELSE IF v.t = "str" THEN Ok(v.s)
    ELSE Err(<<"invalid type: expected a string">>)

\* a usize from a value: a JSON number, or the text of a form value read by
\* str::parse::<usize> (digits, that a '+' may precede)
AsUsize(format, v) ==
    IF format = "form"
    THEN LET digits == IF v # <<>> /\ v[1] = "+" THEN Tail(v) ELSE v
         IN  IF digits = <<>> \/ \E i \in 1..Len(digits) : digits[i] \notin Digit
             THEN Err(<<"invalid digit found in string">>)
             ELSE Ok(DigitsValue(digits))
    ELSE IF v.t = "num" THEN Ok(v.n)
    ELSE Err(<<"invalid type: expected usize">>)

\* Deserialize for HashMap<String, String>, visit_map: every value is a
\* String, and a later entry replaces an earlier one of the same key
RECURSIVE HashMapVisitMap(_, _, _)
HashMapVisitMap(format, es, map) ==
    IF es = <<>> THEN Ok(map)
    ELSE LET value == AsString(format, es[1][2])
         IN  IF ~value.ok THEN value
             ELSE HashMapVisitMap(format, Tail(es),
                      MapInsert(map, es[1][1], value.v))

\* #[derive(Deserialize)] struct Payload, visit_map: foo and baz are
\* required and may come once, any other key is ignored
RECURSIVE PayloadVisitMap(_, _, _, _)
PayloadVisitMap(format, es, foo, baz) ==
    IF es = <<>>
    THEN IF ~foo.some THEN Err(<<"missing field", "foo">>)
         ELSE IF ~baz.some THEN Err(<<"missing field", "baz">>)
         ELSE Ok([foo |-> foo.v, baz |-> baz.v])
    ELSE LET key == es[1][1]
             asFoo == AsString(format, es[1][2])
             asBaz == AsUsize(format, es[1][2])
         IN  CASE key = FOO ->
                      IF foo.some THEN Err(<<"duplicate field", "foo">>)
                      ELSE IF ~asFoo.ok THEN asFoo
                      ELSE PayloadVisitMap(format, Tail(es), Some(asFoo.v), baz)
               [] key = BAZ ->
                      IF baz.some THEN Err(<<"duplicate field", "baz">>)
                      ELSE IF ~asBaz.ok THEN asBaz
                      ELSE PayloadVisitMap(format, Tail(es), foo, Some(asBaz.v))
               [] OTHER -> PayloadVisitMap(format, Tail(es), foo, baz)

\* #[derive(Deserialize)] struct Payload, visit_seq: foo, then baz, and
\* nothing after them
PayloadVisitSeq(xs) ==
    IF Len(xs) # 2 THEN Err(<<"invalid length">>)
    ELSE IF ~AsString("json", xs[1]).ok THEN AsString("json", xs[1])
    ELSE IF ~AsUsize("json", xs[2]).ok THEN AsUsize("json", xs[2])
    ELSE Ok([foo |-> xs[1].s, baz |-> xs[2].n])

\* serde_json::from_slice::<D>
serde_json_from_slice(D, b) ==
    LET value == JsonParse(b)
    IN  IF ~value.ok THEN value
        ELSE CASE value.v.t = "obj" /\ D = HashMapType ->
                      HashMapVisitMap("json", value.v.es, HashMapNew)
               [] value.v.t = "obj" /\ D = PayloadType ->
                      PayloadVisitMap("json", value.v.es, NoneOpt, NoneOpt)
               [] value.v.t = "arr" /\ D = PayloadType ->
                      PayloadVisitSeq(value.v.xs)
               [] OTHER -> Err(<<"invalid type: expected a map">>)

\* serde_urlencoded::from_bytes::<D>
serde_urlencoded_from_bytes(D, b) ==
    IF D = HashMapType
    THEN HashMapVisitMap("form", FormParse(b), HashMapNew)
    ELSE PayloadVisitMap("form", FormParse(b), NoneOpt, NoneOpt)

CONTENT_TYPE == <<"c","o","n","t","e","n","t","-","t","y","p","e">>
APPLICATION_JSON ==
    <<"a","p","p","l","i","c","a","t","i","o","n","/","j","s","o","n">>
APPLICATION_FORM ==
    <<"a","p","p","l","i","c","a","t","i","o","n","/","x","-","w","w","w","-",
      "f","o","r","m","-","u","r","l","e","n","c","o","d","e","d">>

\* the result of payload, from what the decoder returned
PayloadResult(variant, decoded) ==
    IF decoded.ok THEN Ok(Some(decoded.v))
    ELSE Err(<<"PayloadError", variant>> \o decoded.err)

\* a payload that takes a body without a content type for JSON
payload_defaulting_to_json(r, D) ==
    LET ct == HeaderGet(r.headers, CONTENT_TYPE)
    IN  IF ~ct.some \/ HeaderValueToStr(ct.v) = Ok(APPLICATION_JSON)
        THEN PayloadResult("Json",
                 serde_json_from_slice(D, Body_as_ref(r.body)))
        ELSE IF HeaderValueToStr(ct.v) = Ok(APPLICATION_FORM)
        THEN PayloadResult("WwwFormUrlEncoded",
                 serde_urlencoded_from_bytes(D, Body_as_ref(r.body)))
        ELSE Ok(NoneOpt)

\* a payload that answers a body it cannot decode with Ok(None)
payload_none_on_failure(r, D) ==
    LET ct == HeaderGet(r.headers, CONTENT_TYPE)
        json == serde_json_from_slice(D, Body_as_ref(r.body))
        form == serde_urlencoded_from_bytes(D, Body_as_ref(r.body))
    IN  IF ~ct.some THEN Ok(NoneOpt)
        ELSE IF HeaderValueToStr(ct.v) = Ok(APPLICATION_FORM)
        THEN IF form.ok THEN Ok(Some(form.v)) ELSE Ok(NoneOpt)
        ELSE IF HeaderValueToStr(ct.v) = Ok(APPLICATION_JSON)
        THEN IF json.ok THEN Ok(Some(json.v)) ELSE Ok(NoneOpt)
        ELSE Ok(NoneOpt)

\* RequestExt::payload::<D>
payload(r, D) ==
    LET ct == HeaderGet(r.headers, CONTENT_TYPE)
    IN  IF ~ct.some THEN Ok(NoneOpt)
        ELSE CASE HeaderValueToStr(ct.v) = Ok(APPLICATION_FORM) ->
                      PayloadResult("WwwFormUrlEncoded",
                          serde_urlencoded_from_bytes(D, Body_as_ref(r.body)))
               [] HeaderValueToStr(ct.v) = Ok(APPLICATION_JSON) ->
                      PayloadResult("Json",
                          serde_json_from_slice(D, Body_as_ref(r.body)))
               [] OTHER -> Ok(NoneOpt)

(***************************************************************************)
(* body.rs: impl Serialize for Body, into a JSON value.                    *)
(***************************************************************************)
\* a serializer that writes Empty as the empty string
Body_serialize_unit_as_string(b) ==
    CASE b.kind = "Text" ->
             IF FromUtf8(b.bytes).ok THEN Ok(JStr(FromUtf8(b.bytes).v))
             ELSE Err(<<"invalid utf-8 sequence">>)
      [] b.kind = "Binary" -> Ok(JStr(Base64Display(b.bytes)))
      [] b.kind = "Empty" -> Ok(JStr(<<>>))

\* a serializer that replaces what is not UTF-8 in a Text
Body_serialize_lossy(b) ==
    CASE b.kind = "Text" -> Ok(JStr(Utf8Lossy(b.bytes)))
      [] b.kind = "Binary" -> Ok(JStr(Base64Display(b.bytes)))
      [] b.kind = "Empty" -> Ok(JNull)

\* impl Serialize for Body
Body_serialize(b) ==
    CASE b.kind = "Text" ->
             IF FromUtf8(b.bytes).ok THEN Ok(JStr(FromUtf8(b.bytes).v))
             ELSE Err(<<"invalid utf-8 sequence">>)
      [] b.kind = "Binary" -> Ok(JStr(Base64Display(b.bytes)))
      [] b.kind = "Empty" -> Ok(JNull)

(***************************************************************************)
(* The events of the model: a base event that decodes and assembles, and   *)
(* the events that differ from it in one group of fields.                  *)
(***************************************************************************)
GET == <<"G","E","T">>
HostKey == <<"H","o","s","t">>

Context(stage, ip) ==
    [RequestContextDefault EXCEPT
        !.stage = stage, !.http_method = "GET",
        !.identity = [IdentityDefault EXCEPT !.source_ip = ip]]

BaseEvent ==
    [path |-> JStr(<<"/","f">>),
     httpMethod |-> JStr(GET),
     headers |-> JObj(<< <<HostKey, JStr(<<"a">>)>> >>),
     queryStringParameters |-> JNull,
     pathParameters |-> JNull,
     stageVariables |-> JNull,
     body |-> JNull,
     isBase64Encoded |-> JBool(FALSE),
     requestContext |-> JCtx(Context("dev", "10.0.0.1"))]

\* JSON objects: entry sequences with distinct keys
DistinctKeys(es) == \A i, j \in 1..Len(es) : es[i][1] = es[j][1] => i = j
Objects(keys, vals, n) ==
    {JObj(es) : es \in {x \in SeqsUpTo(keys \X vals, n) : DistinctKeys(x)}}

HeaderKeys == {HostKey, HOST, <<"X","-","a">>, <<"a"," ">>}
HeaderVals == {JStr(<<"a">>), JStr(<<"b">>), JStr(<<"<E9>">>), JStr(<<"<LF>">>),
               JNum(1)}
HeaderObjects == Objects(HeaderKeys, HeaderVals, MaxHeaders)

EventsHeaders ==
    {[BaseEvent EXCEPT !.headers = h] : h \in HeaderObjects \cup {Absent, JNull}}

PathAlphabet == {"/", "f", "#", "?", " "}
PathVals == {JStr(x) : x \in SeqsUpTo(PathAlphabet, MaxPathLen)} \cup
            {Absent, JNull}
MethodVals == {JStr(GET), JStr(<<"g","e","t">>), JStr(<<>>), JStr(<<"G"," ">>),
               Absent}
HostVals == {<<"a">>, <<"a","/">>, <<"a","?">>, <<"<E9>">>, <<>>}

EventsTarget ==
    {[BaseEvent EXCEPT !.path = p, !.httpMethod = m,
                       !.headers = JObj(<< <<HostKey, JStr(h)>> >>)] :
        p \in PathVals, m \in MethodVals, h \in HostVals}

BodyAlphabet == {"Q", "R", "=", "*"}
BodyVals == {JStr(x) : x \in SeqsUpTo(BodyAlphabet, MaxBodyLen)} \cup
            {Absent, JNull, JNum(1)}
FlagVals == {Absent, JNull, JBool(TRUE), JBool(FALSE)}

EventsBody ==
    {[BaseEvent EXCEPT !.body = b, !.isBase64Encoded = f] :
        b \in BodyVals, f \in FlagVals}

ParamKeys == {"foo", "baz", "qux"}
ParamVals == Objects(ParamKeys, {JStr("bar"), JNum(2)}, MaxParams)
             \cup {Absent, JNull, JStr("x")}
FewParamVals == {JNull, JObj(<< <<"foo", JStr("bar")>> >>),
                 JObj(<< <<"baz", JStr("2")>> >>)}

EventsParams ==
    {[BaseEvent EXCEPT !.queryStringParameters = q, !.pathParameters = p,
                       !.stageVariables = v] :
        q \in ParamVals, p \in FewParamVals, v \in FewParamVals}
    \cup
    {[BaseEvent EXCEPT !.queryStringParameters = q, !.pathParameters = p,
                       !.stageVariables = v] :
        q \in FewParamVals, p \in ParamVals, v \in FewParamVals}
    \cup
    {[BaseEvent EXCEPT !.queryStringParameters = q, !.pathParameters = p,
                       !.stageVariables = v] :
        q \in FewParamVals, p \in FewParamVals, v \in ParamVals}

EventsContext ==
    {[BaseEvent EXCEPT !.requestContext = c] :
        c \in {Absent, JNull, JCtx(Context("dev", "10.0.0.1")),
               JCtx(Context("prod", "10.0.0.2"))}}

Events == EventsHeaders \cup EventsTarget \cup EventsBody \cup EventsParams
          \cup EventsContext

\* what the application handler may return
HandlerResults ==
    {Ok([t |-> "str", v |-> <<"h","i">>]),
     Ok([t |-> "response", status |-> 404,
         headers |-> << <<<<"x","-","a">>, <<"b">>>> >>,
         body |-> [t |-> "bytes", v |-> <<255>>]]),
     Err(<<"handler failed">>)}

\* the bodies of requests that application code builds itself
PlainBodies == {BodyEmpty, BodyText(Utf8(<<"h","i">>))}

\* the values of the Content-Type header of the events
ContentTypeVals ==
    {
     \* application/json
     APPLICATION_JSON,
     \* application/x-www-form-urlencoded
     APPLICATION_FORM,
     \* Application/JSON
     <<"A","p","p","l","i","c","a","t","i","o","n","/","J","S","O","N">>,
     \* application/json; charset=utf-8
     <<"a","p","p","l","i","c","a","t","i","o","n","/","j","s","o","n",
       ";"," ","c","h","a","r","s","e","t","=","u","t","f","-","8">>,
     \* APPLICATION/X-WWW-FORM-URLENCODED
     <<"A","P","P","L","I","C","A","T","I","O","N","/","X","-","W","W",
       "W","-","F","O","R","M","-","U","R","L","E","N","C","O","D","E",
       "D">>,
     \* application/x-www-form-urlencoded;charset=UTF-8
     <<"a","p","p","l","i","c","a","t","i","o","n","/","x","-","w","w",
       "w","-","f","o","r","m","-","u","r","l","e","n","c","o","d","e",
       "d",";","c","h","a","r","s","e","t","=","U","T","F","-","8">>,
     \* text/plain
     <<"t","e","x","t","/","p","l","a","i","n">>,
     \* a byte that is no visible ASCII
     <<"<E9>">>
    }

\* the text bodies of the events
PayloadTexts ==
    {
     \* {"foo":"bar","baz":2}
     <<"{","<DQUOTE>","f","o","o","<DQUOTE>",":","<DQUOTE>","b","a","r",
       "<DQUOTE>",",","<DQUOTE>","b","a","z","<DQUOTE>",":","2","}">>,
     \* {"foo":"bar", "baz": 2}
     <<"{","<DQUOTE>","f","o","o","<DQUOTE>",":","<DQUOTE>","b","a","r",
       "<DQUOTE>",","," ","<DQUOTE>","b","a","z","<DQUOTE>",":"," ","2",
       "}">>,
     \* {"foo":"bar"}
     <<"{","<DQUOTE>","f","o","o","<DQUOTE>",":","<DQUOTE>","b","a","r",
       "<DQUOTE>","}">>,
     \* {}
     <<"{","}">>,
     \* the empty string
     <<>>,
     \* x
     <<"x">>,
     \* foo=bar&baz=2
     <<"f","o","o","=","b","a","r","&","b","a","z","=","2">>,
     \* foo=bar
     <<"f","o","o","=","b","a","r">>,
     \* baz=x&foo=y
     <<"b","a","z","=","x","&","f","o","o","=","y">>
    }

\* the base64 bodies of the events: the encodings of the byte 0xFF, of {}
\* and of foo=bar&baz=2
PayloadBase64Texts ==
    {
     \* /w==
     <<"/","w","=","=">>,
     \* e30=
     <<"e","3","0","=">>,
     \* Zm9vPWJhciZiYXo9Mg==
     <<"Z","m","9","v","P","W","J","h","c","i","Z","i","Y","X","o","9",
       "M","g","=","=">>
    }

ContentTypeKey == <<"C","o","n","t","e","n","t","-","T","y","p","e">>

\* the events whose requests payload is called on: the base event with a
\* body, and with or without a Content-Type header
PayloadHeaders ==
    {JObj(<< <<HostKey, JStr(<<"a">>)>> >>)} \cup
    {JObj(<< <<HostKey, JStr(<<"a">>)>>, <<ContentTypeKey, JStr(ct)>> >>) :
        ct \in ContentTypeVals}

PayloadBodies ==
    {<<JNull, JBool(FALSE)>>} \cup
    {<<JStr(text), JBool(FALSE)>> : text \in PayloadTexts} \cup
    {<<JStr(text), JBool(TRUE)>> : text \in PayloadBase64Texts}

PayloadEvents ==
    {[BaseEvent EXCEPT !.headers = h, !.body = b[1], !.isBase64Encoded = b[2]] :
        h \in PayloadHeaders, b \in PayloadBodies}

(***************************************************************************)
(* lib.rs: handler.  One invocation runs from the event to what the        *)
(* invocation returns: a reply, an error, or a panic of the conversion.    *)
(***************************************************************************)
Init ==
    /\ pc = "idle"
    /\ event = None
    /\ gw = None
    /\ req = None
    /\ invoked = FALSE
    /\ result = None
    /\ reply = None
    /\ outcome = None
    /\ source = None
    /\ converted = None
    /\ serialized = None
    /\ parsed = None
    /\ wire = None
    /\ builder = None
    /\ arcs = <<>>
    /\ handles = <<>>
    /\ iters = <<>>
    /\ observed = None

\* the gateway delivers an event: handler(py, func, py_event, py_context)
Receive(e) ==
    /\ pc = "idle"
    /\ pc' = "received"
    /\ event' = e
    /\ UNCHANGED <<gw, req, invoked, result, reply, outcome>>
    /\ UNCHANGED <<source, converted, serialized, parsed, wire>>
    /\ UNCHANGED <<builder, arcs, handles, iters, observed>>

\* a decoder that carries on with a stand-in envelope when decoding fails
DecodeLenient ==
    /\ pc = "received"
    /\ LET apigw == GatewayRequest_deserialize(event)
       IN  /\ gw' = IF apigw.ok THEN apigw.v
                    ELSE [path |-> <<"/">>, http_method |-> GET,
                          headers |-> << <<HOST, <<"a">>>> >>,
                          query_string_parameters |-> StrMapDefault,
                          path_parameters |-> StrMapDefault,
                          stage_variables |-> StrMapDefault,
                          body |-> NoneOpt, is_base64_encoded |-> FALSE,
                          request_context |-> RequestContextDefault]
           /\ pc' = "decoded"
           /\ UNCHANGED outcome
    /\ UNCHANGED <<event, req, invoked, result, reply>>
    /\ UNCHANGED <<source, converted, serialized, parsed, wire>>
    /\ UNCHANGED <<builder, arcs, handles, iters, observed>>

\* let apigw = serde_json::from_value::<request::GatewayRequest>(event)?;
Decode ==
    /\ pc = "received"
    /\ LET apigw == GatewayRequest_deserialize(event)
       IN  IF apigw.ok
           THEN /\ gw' = apigw.v
                /\ pc' = "decoded"
                /\ UNCHANGED outcome
           ELSE /\ outcome' = [kind |-> "error", err |-> apigw.err]
                /\ pc' = "done"
                /\ UNCHANGED gw
    /\ UNCHANGED <<event, req, invoked, result, reply>>
    /\ UNCHANGED <<source, converted, serialized, parsed, wire>>
    /\ UNCHANGED <<builder, arcs, handles, iters, observed>>

\* Request::from(apigw)
Assemble ==
    /\ pc = "decoded"
    /\ \E decoded \in (IF gw.body.some /\ gw.is_base64_encoded
                       THEN base64_decode(gw.body.v) ELSE {Ok(<<>>)}) :
          LET r == HttpRequest_from(gw, decoded)
          IN  IF r.ok
              THEN /\ req' = r.v
                   /\ pc' = "assembled"
                   /\ UNCHANGED outcome
              ELSE /\ outcome' = [kind |-> "panic", err |-> r.err]
                   /\ pc' = "done"
                   /\ UNCHANGED req
    /\ UNCHANGED <<event, gw, invoked, result, reply>>
    /\ UNCHANGED <<source, converted, serialized, parsed, wire>>
    /\ UNCHANGED <<builder, arcs, handles, iters, observed>>

\* func(request, ctx)
Invoke(r) ==
    /\ pc = "assembled"
    /\ invoked' = TRUE
    /\ result' = r
    /\ pc' = "returned"
    /\ UNCHANGED <<event, gw, req, reply, outcome>>
    /\ UNCHANGED <<source, converted, serialized, parsed, wire>>
    /\ UNCHANGED <<builder, arcs, handles, iters, observed>>

\* a wrapper that answers a handler's error with a reply
RespondAlways ==
    /\ pc = "returned"
    /\ reply' = IF result.ok
                THEN GatewayResponse_from(into_response(result.v))
                ELSE GatewayResponse_from(Response(500, <<>>, BodyEmpty))
    /\ wire' = GatewayResponse_serialize(reply')
    /\ outcome' = [kind |-> "reply"]
    /\ pc' = "done"
    /\ UNCHANGED <<event, gw, req, invoked, result>>
    /\ UNCHANGED <<source, converted, serialized, parsed>>
    /\ UNCHANGED <<builder, arcs, handles, iters, observed>>

\* .map(|into| response::GatewayResponse::from(into.into_response()))
Respond ==
    /\ pc = "returned"
    /\ IF result.ok
       THEN /\ reply' = GatewayResponse_from(into_response(result.v))
            /\ wire' = GatewayResponse_serialize(reply')
            /\ outcome' = [kind |-> "reply"]
       ELSE /\ outcome' = [kind |-> "error", err |-> result.err]
            /\ UNCHANGED <<reply, wire>>
    /\ pc' = "done"
    /\ UNCHANGED <<event, gw, req, invoked, result>>
    /\ UNCHANGED <<source, converted, serialized, parsed>>
    /\ UNCHANGED <<builder, arcs, handles, iters, observed>>

\* a request that application code builds without an event: it carries no
\* extension
NewRequest(b) ==
    /\ pc = "idle"
    /\ req' = [method |-> GET,
               uri |-> UriParseHttps(<<"a","/">>).v,
               headers |-> <<>>,
               extensions |-> NoExtensions,
               body |-> b]
    /\ pc' = "plain"
    /\ UNCHANGED <<event, gw, invoked, result, reply, outcome>>
    /\ UNCHANGED <<source, converted, serialized, parsed, wire>>
    /\ UNCHANGED <<builder, arcs, handles, iters, observed>>

\* the handler calls request.payload::<D>()
Payload(D) ==
    /\ pc = "assembled"
    /\ parsed' = [type |-> D, result |-> payload(req, D)]
    /\ pc' = "parsed"
    /\ UNCHANGED <<event, gw, req, invoked, result, reply, outcome>>
    /\ UNCHANGED <<source, converted, serialized, wire>>
    /\ UNCHANGED <<builder, arcs, handles, iters, observed>>

Next ==
    \/ \E e \in Events : Receive(e)
    \/ Decode
    \/ Assemble
    \/ \E r \in HandlerResults : Invoke(r)
    \/ Respond
    \/ \E b \in PlainBodies : NewRequest(b)

Spec == Init /\ [][Next]_vars

\* the values that bodies are built from: text in the field s, bytes in the
\* field b
SourceChars == {"a", "<E9>", "<DQUOTE>"}
SourceBytes == {0, 97, 98, 114, 255}
Sources ==
    {[type |-> t, variant |-> "-"] : t \in {"()", "default"}}
    \cup
    {[type |-> t, variant |-> "-", s |-> str] :
        t \in {"&str", "String"}, str \in SeqsUpTo(SourceChars, MaxTextLen)}
    \cup
    {[type |-> "Cow<str>", variant |-> c, s |-> str] :
        c \in {"Borrowed", "Owned"}, str \in SeqsUpTo(SourceChars, MaxTextLen)}
    \cup
    {[type |-> t, variant |-> "-", b |-> b] :
        t \in {"&[u8]", "Vec<u8>"}, b \in SeqsUpTo(SourceBytes, MaxBytesLen)}
    \cup
    {[type |-> "Cow<[u8]>", variant |-> c, b |-> b] :
        c \in {"Borrowed", "Owned"}, b \in SeqsUpTo(SourceBytes, MaxBytesLen)}

\* Body::from(src)
Convert(src) ==
    /\ pc = "idle"
    /\ source' = src
    /\ converted' = Body_from(src)
    /\ pc' = "converted"
    /\ UNCHANGED <<event, gw, req, invoked, result, reply, outcome>>
    /\ UNCHANGED <<serialized, parsed, wire>>
    /\ UNCHANGED <<builder, arcs, handles, iters, observed>>

\* the bodies that application code builds from bytes with the variants of
\* the enum, Body::Text(bytes) and Body::Binary(bytes)
VariantBytes == {97, 169, 195, 255}
VariantBodies ==
    {BodyText(b) : b \in SeqsUpTo(VariantBytes, MaxBytesLen)} \cup
    {BodyBinary(b) : b \in SeqsUpTo(VariantBytes, MaxBytesLen)}

\* Body::Text(bytes) or Body::Binary(bytes)
Construct(body) ==
    /\ pc = "idle"
    /\ source' = [type |-> "Body", variant |-> body.kind, b |-> body.bytes]
    /\ converted' = body
    /\ pc' = "converted"
    /\ UNCHANGED <<event, gw, req, invoked, result, reply, outcome>>
    /\ UNCHANGED <<serialized, parsed, wire>>
    /\ UNCHANGED <<builder, arcs, handles, iters, observed>>

\* the body is serialized: body.serialize(serializer)
Serialize ==
    /\ pc = "converted"
    /\ serialized' = Body_serialize(converted)
    /\ pc' = "serialized"
    /\ UNCHANGED <<event, gw, req, invoked, result, reply, outcome>>
    /\ UNCHANGED <<source, converted, parsed, wire>>
    /\ UNCHANGED <<builder, arcs, handles, iters, observed>>

\* the string that the body serialized to comes back as the body of an
\* event, marked as base64 when the body was Binary
ReceiveSerialized ==
    /\ pc = "serialized"
    /\ serialized.ok /\ serialized.v.t = "str"
    /\ event' = [BaseEvent EXCEPT
                    !.body = serialized.v,
                    !.isBase64Encoded = JBool(converted.kind = "Binary")]
    /\ pc' = "received"
    /\ UNCHANGED <<gw, req, invoked, result, reply, outcome>>
    /\ UNCHANGED <<source, converted, serialized, parsed, wire>>
    /\ UNCHANGED <<builder, arcs, handles, iters, observed>>

\* the bodies that are built, serialized, and sent back in an event
BodyNext ==
    \/ \E src \in Sources : Convert(src)
    \/ \E body \in VariantBodies : Construct(body)
    \/ Serialize
    \/ ReceiveSerialized
    \/ Decode
    \/ Assemble

BodySpec == Init /\ [][BodyNext]_vars

\* the maps that a StrMap is built from, and the keys that are looked up
StrMaps ==
    {StrMapDefault,
     [k \in {"foo"} |-> "bar"],
     [k \in {"foo", "baz"} |-> IF k = "foo" THEN "bar" ELSE "boom"],
     [k \in {"foo", "baz"} |-> "bar"]}
StrMapKeys == {"foo", "bar", "baz"}

\* the map that the handle h points to; what a read finds in a map that was
\* freed is anything
Inner(h) ==
    IF arcs[handles[h].arc].freed THEN StrMaps
    ELSE {arcs[handles[h].arc].inner}

Live(h) == h \in 1..Len(handles) /\ handles[h].live

\* From<HashMap<String, String>> for StrMap, and StrMap::default() for the
\* empty map
StrMapFrom(inner) ==
    /\ pc = "idle"
    /\ source' = inner
    /\ arcs' = <<Arc_new(inner)>>
    /\ handles' = <<[arc |-> 1, live |-> TRUE]>>
    /\ pc' = "strmap"
    /\ UNCHANGED <<event, gw, req, invoked, result, reply, outcome>>
    /\ UNCHANGED <<converted, serialized, parsed, wire>>
    /\ UNCHANGED <<builder, iters, observed>>

\* Clone for StrMap: StrMap(self.0.clone())
StrMapClone(h) ==
    /\ pc = "strmap"
    /\ Live(h)
    /\ Len(handles) < MaxHandles
    /\ arcs' = [arcs EXCEPT ![handles[h].arc] = Arc_clone(@)]
    /\ handles' = Append(handles, [arc |-> handles[h].arc, live |-> TRUE])
    /\ UNCHANGED <<pc, event, gw, req, invoked, result, reply, outcome>>
    /\ UNCHANGED <<source, converted, serialized, parsed, wire>>
    /\ UNCHANGED <<builder, iters, observed>>

\* strmap.get(key)
StrMapGet(h, key) ==
    /\ pc = "strmap"
    /\ Live(h)
    /\ \E inner \in Inner(h) :
          observed' = [op |-> "get", handle |-> h, key |-> key,
                       value |-> StrMap_get(inner, key)]
    /\ UNCHANGED <<pc, event, gw, req, invoked, result, reply, outcome>>
    /\ UNCHANGED <<source, converted, serialized, parsed, wire>>
    /\ UNCHANGED <<builder, arcs, handles, iters>>

\* strmap.is_empty()
StrMapIsEmpty(h) ==
    /\ pc = "strmap"
    /\ Live(h)
    /\ \E inner \in Inner(h) :
          observed' = [op |-> "is_empty", handle |-> h, key |-> "",
                       value |-> [some |-> StrMap_is_empty(inner)]]
    /\ UNCHANGED <<pc, event, gw, req, invoked, result, reply, outcome>>
    /\ UNCHANGED <<source, converted, serialized, parsed, wire>>
    /\ UNCHANGED <<builder, arcs, handles, iters>>

\* strmap.iter()
StrMapIter(h) ==
    /\ pc = "strmap"
    /\ Live(h)
    /\ Len(iters) < MaxIters
    /\ \E inner \in Inner(h) : iters' = Append(iters, StrMap_iter(h, inner))
    /\ UNCHANGED <<pc, event, gw, req, invoked, result, reply, outcome>>
    /\ UNCHANGED <<source, converted, serialized, parsed, wire>>
    /\ UNCHANGED <<builder, arcs, handles, observed>>

\* iterator.next(); the iterator borrows its handle, which is live
StrMapIterNext(i) ==
    /\ pc = "strmap"
    /\ i \in 1..Len(iters)
    /\ iters[i].state = "open"
    /\ \E inner \in Inner(iters[i].handle) :
       \E k \in (IF iters[i].keys = {} THEN {""} ELSE iters[i].keys) :
          iters' = [iters EXCEPT ![i] = StrMapIter_next(@, inner, k)]
    /\ UNCHANGED <<pc, event, gw, req, invoked, result, reply, outcome>>
    /\ UNCHANGED <<source, converted, serialized, parsed, wire>>
    /\ UNCHANGED <<builder, arcs, handles, observed>>

\* the iterator goes out of scope, exhausted or not
StrMapIterDrop(i) ==
    /\ pc = "strmap"
    /\ i \in 1..Len(iters)
    /\ iters' = SubSeq(iters, 1, i - 1) \o SubSeq(iters, i + 1, Len(iters))
    /\ UNCHANGED <<pc, event, gw, req, invoked, result, reply, outcome>>
    /\ UNCHANGED <<source, converted, serialized, parsed, wire>>
    /\ UNCHANGED <<builder, arcs, handles, observed>>

\* drop(strmap): allowed when no iterator borrows the handle
StrMapDrop(h) ==
    /\ pc = "strmap"
    /\ Live(h)
    /\ \A i \in 1..Len(iters) : iters[i].handle # h
    /\ handles' = [handles EXCEPT ![h].live = FALSE]
    /\ arcs' = [arcs EXCEPT ![handles[h].arc] = Arc_drop(@)]
    /\ UNCHANGED <<pc, event, gw, req, invoked, result, reply, outcome>>
    /\ UNCHANGED <<source, converted, serialized, parsed, wire>>
    /\ UNCHANGED <<builder, iters, observed>>

StrMapNext ==
    \/ \E inner \in StrMaps : StrMapFrom(inner)
    \/ \E h \in 1..MaxHandles : StrMapClone(h)
    \/ \E h \in 1..MaxHandles, key \in StrMapKeys : StrMapGet(h, key)
    \/ \E h \in 1..MaxHandles : StrMapIsEmpty(h)
    \/ \E h \in 1..MaxHandles : StrMapIter(h)
    \/ \E i \in 1..MaxIters : StrMapIterNext(i)
    \/ \E i \in 1..MaxIters : StrMapIterDrop(i)
    \/ \E h \in 1..MaxHandles : StrMapDrop(h)

StrMapSpec == Init /\ [][StrMapNext]_vars

\* what application code gives to the builder
BuilderStatuses == {StatusOk, 404}
BuilderBodies ==
    {NoneOpt, Some(<<>>), Some(FOO), Some(<<"<DQUOTE>", "<LF>">>)}
BuilderHeaderNames == {<<"a">>, <<"b">>}
BuilderHeaderValues == {<<"x">>, <<"y", "<BSLASH>">>}
BuilderHeaders ==
    SeqsUpTo(BuilderHeaderNames \X BuilderHeaderValues, MaxHeaders)

\* GatewayResponse::builder()
NewBuilder ==
    /\ pc = "idle"
    /\ builder' = Builder_new
    /\ pc' = "building"
    /\ UNCHANGED <<event, gw, req, invoked, result, reply, outcome>>
    /\ UNCHANGED <<source, converted, serialized, parsed, wire>>
    /\ UNCHANGED <<arcs, handles, iters, observed>>

\* one call of a setter of the builder
SetBuilder ==
    /\ pc = "building"
    /\ \/ \E c \in BuilderStatuses : builder' = Builder_status_code(builder, c)
       \/ \E b \in BuilderBodies : builder' = Builder_body(builder, b)
       \/ \E h \in BuilderHeaders : builder' = Builder_headers(builder, h)
       \/ \E is \in BOOLEAN : builder' = Builder_base64_encoded(builder, is)
    /\ UNCHANGED <<pc, event, gw, req, invoked, result, reply, outcome>>
    /\ UNCHANGED <<source, converted, serialized, parsed, wire>>
    /\ UNCHANGED <<arcs, handles, iters, observed>>

\* .build(), and serde_json::to_string of the response it builds
Build ==
    /\ pc = "building"
    /\ reply' = Builder_build(builder)
    /\ wire' = GatewayResponse_serialize(reply')
    /\ \E text \in serde_json_to_string(reply') : serialized' = Ok(text)
    /\ pc' = "built"
    /\ UNCHANGED <<event, gw, req, invoked, result, outcome>>
    /\ UNCHANGED <<source, converted, parsed, builder>>
    /\ UNCHANGED <<arcs, handles, iters, observed>>

BuilderNext ==
    \/ NewBuilder
    \/ SetBuilder
    \/ Build

BuilderSpec == Init /\ [][BuilderNext]_vars

\* what a handler may return, for the conversion into a reply: a Body, alone
\* or in a Response, or an error
ResponseBytes == {104, 169, 195, 255}
ResponseBodies ==
    {BodyEmpty} \cup
    {BodyText(b) : b \in SeqsUpTo(ResponseBytes, MaxBytesLen)} \cup
    {BodyBinary(b) : b \in SeqsUpTo(ResponseBytes, MaxBytesLen)}
ResponseHeaders == {<<>>, << <<<<"x","-","a">>, <<"b">>>> >>}
\* the values that are Into<Body>: a Body, (), a str or String, bytes
IntoBodies ==
    {[t |-> "body", v |-> b] : b \in ResponseBodies} \cup
    {[t |-> "unit"]} \cup
    {[t |-> "str", v |-> str] : str \in SeqsUpTo(SourceChars, MaxTextLen)} \cup
    {[t |-> "bytes", v |-> b] : b \in {<<>>} \cup {<<x>> : x \in ResponseBytes}}
\* the header tables of responses, as the pairs that iterating them gives:
\* a name may have several values
HeaderTableNames == {<<"x","-","a">>, <<"b">>}
HeaderTableValues == {<<"b">>, <<"c">>, <<"<E9>">>}
HeaderTables == SeqsUpTo(HeaderTableNames \X HeaderTableValues, MaxHeaders)
ResponseResults ==
    {Ok(b) : b \in IntoBodies} \cup
    {Ok([t |-> "response", status |-> StatusOk, headers |-> h,
         body |-> [t |-> "unit"]]) : h \in HeaderTables} \cup
    {Ok([t |-> "response", status |-> st, headers |-> h, body |-> b]) :
        st \in {StatusOk, 404}, h \in ResponseHeaders, b \in IntoBodies}
    \cup {Err(<<"handler failed">>)}

\* the invocations on the base event, over what the handler returns
ResponseNext ==
    \/ Receive(BaseEvent)
    \/ Decode
    \/ Assemble
    \/ \E r \in ResponseResults : Invoke(r)
    \/ Respond

ResponseSpec == Init /\ [][ResponseNext]_vars

\* the invocations in which the handler reads the payload of the request
PayloadNext ==
    \/ \E e \in PayloadEvents : Receive(e)
    \/ Decode
    \/ Assemble
    \/ \E D \in PayloadTypes : Payload(D)

PayloadSpec == Init /\ [][PayloadNext]_vars

(***************************************************************************)
(* Properties.                                                             *)
(***************************************************************************)
ParamFields == {"queryStringParameters", "pathParameters", "stageVariables"}

\* the field of GatewayRequest that a parameter map of the event decodes to
ParamOf(g, f) ==
    CASE f = "queryStringParameters" -> g.query_string_parameters
      [] f = "pathParameters" -> g.path_parameters
      [] f = "stageVariables" -> g.stage_variables

\* the conversion of the envelope has been attempted
AssemblyOver == pc \in {"assembled", "returned", "done"} /\ gw # None

\* the conversion of the envelope has yielded a request
Assembled == AssemblyOver /\ req # None

DecodeFails == event # None /\ ~GatewayRequest_deserialize(event).ok

\* C1: when decoding the event into a GatewayRequest fails, the application
\* handler is never invoked for the event, and the invocation returns the
\* decode error.
C1_DecodeErrorBeforeHandler ==
    DecodeFails =>
        /\ ~invoked
        /\ result = None
        /\ pc = "done" =>
               outcome = [kind |-> "error",
                          err |-> GatewayRequest_deserialize(event).err]

C1_Witness == DecodeFails /\ pc = "done" /\ outcome.kind = "error"

\* C2: a reply is produced if and only if the decoding of the event and the
\* application handler both succeed; when either fails, no reply is
\* produced and the invocation returns the error.
C2_ReplyIffBothSucceed ==
    /\ reply # None =>
           ~DecodeFails /\ result # None /\ result.ok /\ outcome.kind = "reply"
    /\ pc = "done" =>
           /\ (reply # None) <=> (~DecodeFails /\ result # None /\ result.ok)
           /\ DecodeFails =>
                  outcome = [kind |-> "error",
                             err |-> GatewayRequest_deserialize(event).err]
           /\ (result # None /\ ~result.ok) =>
                  outcome = [kind |-> "error", err |-> result.err]

C2_Witness == pc = "done" /\ result # None /\ ~result.ok /\ reply = None

\* C3: each of queryStringParameters, pathParameters and stageVariables
\* decodes a JSON null to an empty StrMap, and a JSON object to the StrMap
\* that holds exactly the object's key/value pairs.
C3_ParamMapsDecodeExactly ==
    gw # None =>
        \A f \in ParamFields :
            /\ event[f] = JNull => DOMAIN ParamOf(gw, f) = {}
            /\ event[f].t = "obj" =>
                   /\ DOMAIN ParamOf(gw, f) = {e[1] : e \in Range(event[f].es)}
                   /\ \A e \in Range(event[f].es) :
                          ParamOf(gw, f)[e[1]] = e[2].s

C3_Witness ==
    /\ gw # None
    /\ event.queryStringParameters.t = "obj"
    /\ Len(event.queryStringParameters.es) = 2
    /\ event.pathParameters = JNull

\* C4: when queryStringParameters, pathParameters or stageVariables is
\* absent from the event, decoding still succeeds and the StrMap is empty.
C4_AbsentParamMapDecodesEmpty ==
    \A f \in ParamFields :
        (/\ pc \notin {"idle", "received", "plain"}
         /\ event[f] = Absent
         /\ GatewayRequest_deserialize([event EXCEPT ![f] = JNull]).ok)
        => (gw # None /\ DOMAIN ParamOf(gw, f) = {})

\* C5: when the headers object of the event has an entry whose key is no
\* valid header name or whose value is no valid header value, decoding the
\* envelope fails with a decode error; no envelope is produced.
BadHeaderEntry(e) ==
    e[2].t = "str" /\
    (~ParseHeaderName(e[1]).ok \/ ~HeaderValueFromShared(e[2].s).ok)

HasBadHeader ==
    /\ event # None
    /\ event.headers.t = "obj"
    /\ \E e \in Range(event.headers.es) : BadHeaderEntry(e)

C5_BadHeaderFailsDecode ==
    HasBadHeader =>
        /\ gw = None
        /\ req = None
        /\ pc = "done" => outcome.kind = "error"

C5_Witness ==
    /\ HasBadHeader
    /\ \E e \in Range(event.headers.es) : ~BadHeaderEntry(e)
    /\ pc = "done"
    /\ outcome.kind = "error"

\* the value of the Host header of the envelope
HostHeader == HeaderGet(gw.headers, HOST)

\* C6, as the specification states it, on the envelopes whose Host value h
\* is a host name and whose path p is absolute: the URI of the assembled
\* request reads exactly "https://" + h + p, and its method is the
\* envelope's httpMethod.
C6_UriIsExactlyHostAndPath ==
    (/\ Assembled
     /\ HostHeader.some
     /\ HostHeader.v # <<>>
     /\ Range(HostHeader.v) \subseteq Lower \cup Upper \cup Digit \cup {".", "-"}
     /\ gw.path # <<>>
     /\ gw.path[1] = "/")
    =>  /\ UriToString(req.uri) = HttpsScheme \o HostHeader.v \o gw.path
        /\ req.method = gw.http_method

\* the text before the first '#', and a "/" path put in where the authority
\* is followed by no path
WithoutFragment(str) ==
    IF "#" \in Range(str)
    THEN SubSeq(str, 1, Least({i \in 1..Len(str) : str[i] = "#"}) - 1)
    ELSE str

WithPath(str) ==
    LET stops == {i \in 1..Len(str) : str[i] \in {"/", "?"}}
    IN  IF stops = {} THEN str \o <<"/">>
        ELSE IF str[Least(stops)] = "/" THEN str
        ELSE SubSeq(str, 1, Least(stops) - 1) \o <<"/">> \o
             SubSeq(str, Least(stops), Len(str))

\* C6, amended: for an envelope with a Host header whose value h is visible
\* ASCII, the method of the assembled request is the envelope's httpMethod,
\* and its URI reads "https://" + h + p with a '#' and what follows it left
\* out and with the path "/" where h + p has none; so it reads exactly
\* "https://" + h + p when h holds no '/', '?' or '#' and p starts with '/'
\* and holds no '#'.
C6_UriIsHostAndPathWithoutFragment ==
    (Assembled /\ HostHeader.some /\ Range(HostHeader.v) \subseteq VisibleAscii)
    =>  /\ req.method = gw.http_method
        /\ UriToString(req.uri) =
               HttpsScheme \o WithPath(WithoutFragment(HostHeader.v \o gw.path))
        /\ (/\ Range(HostHeader.v) \cap {"/", "?", "#"} = {}
            /\ gw.path # <<>>
            /\ gw.path[1] = "/"
            /\ "#" \notin Range(gw.path))
           => UriToString(req.uri) = HttpsScheme \o HostHeader.v \o gw.path

C6_Witness ==
    /\ Assembled
    /\ HostHeader.some
    /\ HostHeader.v = <<"a">>
    /\ gw.path = <<"/", "#">>
    /\ Len(SelectSeq(gw.headers, LAMBDA h : h[1] = HOST)) = 1

\* C7: when the envelope has no Host header, assembling the request is no
\* error: it yields a request whose URI has an empty host, "https://" + p.
C7_NoHostStillAssembles ==
    (/\ AssemblyOver
     /\ ~HostHeader.some
     /\ gw.http_method = GET
     /\ gw.path = <<"/", "f">>)
    => (/\ req # None
        /\ outcome = None \/ outcome.kind # "panic"
        /\ UriToString(req.uri) = HttpsScheme \o gw.path)

\* the headers of the event as (name, value) pairs, names as written
WireHeaders ==
    [i \in 1..Len(event.headers.es) |->
        <<event.headers.es[i][1], event.headers.es[i][2].s>>]

LowerCased(str) == [i \in 1..Len(str) |-> ToLowerChar(str[i])]

\* C8, as the specification states it: the header table of the assembled
\* request holds exactly the headers of the envelope, every name in the case
\* it was written in and every value unchanged.
C8_HeadersKeepCase ==
    Assembled => req.headers = WireHeaders

\* C8, amended: the header table of the assembled request holds exactly the
\* headers of the envelope, every name in lower case and every value
\* unchanged, none added and none dropped; names that differ only in case
\* are the same header, which then holds each of their values.
C8_HeadersLowerCased ==
    Assembled =>
        /\ req.headers = [i \in 1..Len(WireHeaders) |->
                             <<LowerCased(WireHeaders[i][1]), WireHeaders[i][2]>>]
        /\ req.headers = gw.headers

C8_Witness ==
    /\ Assembled
    /\ Len(req.headers) = 2
    /\ \E i \in 1..2 : WireHeaders[i][1] # req.headers[i][1]

\* C9: on a request assembled from an envelope, query_string_parameters(),
\* path_parameters(), stage_variables() and request_context() each return
\* the envelope's value of that field, whatever the other three hold; on a
\* request without the extension each returns the default.
C9_AccessorsReturnOwnField ==
    /\ Assembled =>
           /\ query_string_parameters(req) = gw.query_string_parameters
           /\ path_parameters(req) = gw.path_parameters
           /\ stage_variables(req) = gw.stage_variables
           /\ request_context(req) = gw.request_context
    /\ pc = "plain" =>
           /\ query_string_parameters(req) = StrMapDefault
           /\ path_parameters(req) = StrMapDefault
           /\ stage_variables(req) = StrMapDefault
           /\ request_context(req) = RequestContextDefault

C9_Witness ==
    /\ Assembled
    /\ DOMAIN query_string_parameters(req) = {"foo", "baz"}
    /\ DOMAIN path_parameters(req) = {"foo"}
    /\ DOMAIN stage_variables(req) = {"baz"}
    /\ request_context(req).stage = "dev"

\* text that is the padded standard base64 encoding of some bytes
ValidBase64(str) ==
    LET n == Cardinality({i \in 1..Len(str) : str[i] # "="})
    IN  /\ Len(str) % 4 = 0
        /\ Len(str) - n <= 2
        /\ n = 0 => Len(str) = 0
        /\ \A i \in 1..n : str[i] \in Range(B64Seq)
        /\ Len(str) - n = 1 => B64Val(str[n]) % 4 = 0
        /\ Len(str) - n = 2 => B64Val(str[n]) % 16 = 0

\* C10: the body of the assembled request is Empty when the body of the
\* event is absent or null; Text holding the bytes of the string when it is
\* a string and isBase64Encoded is false or absent; Binary holding the
\* decoded bytes when it is a string of valid base64 and the flag is true.
C10_BodyMaterialization ==
    Assembled =>
        /\ event.body \in {Absent, JNull} => req.body = BodyEmpty
        /\ (event.body.t = "str" /\
            event.isBase64Encoded \in {Absent, JBool(FALSE)}) =>
               req.body = [kind |-> "Text", bytes |-> Utf8(event.body.s)]
        /\ (event.body.t = "str" /\ event.isBase64Encoded = JBool(TRUE) /\
            ValidBase64(event.body.s)) =>
               /\ req.body.kind = "Binary"
               /\ Base64Display(req.body.bytes) = event.body.s

C10_Witness ==
    /\ Assembled
    /\ event.isBase64Encoded = JBool(TRUE)
    /\ req.body.kind = "Binary"
    /\ Len(req.body.bytes) = 2

\* text that base64::decode rejects in every version of the base64 crate
InvalidBase64(str) == \A d \in base64_decode(str) : ~d.ok

\* C11: when the body of the event is a string, isBase64Encoded is true and
\* the string is not valid base64, the conversion fails: it yields no request,
\* so the handler is not invoked, and the invocation ends in an error.
C11_InvalidBase64IsFatal ==
    (AssemblyOver /\ gw.body.some /\ gw.is_base64_encoded /\
     InvalidBase64(gw.body.v)) =>
        /\ req = None
        /\ ~invoked
        /\ pc = "done" /\ outcome.kind \in {"error", "panic"}

(***************************************************************************)
(* Properties of RequestExt::payload.                                      *)
(***************************************************************************)
\* payload has been called on the request
Parsed == pc = "parsed" /\ parsed # None

\* the Content-Type of the request as payload reads it: the text of the
\* first content-type header, when there is one and it is visible ASCII
ContentType ==
    LET ct == HeaderGet(req.headers, CONTENT_TYPE)
    IN  IF ct.some /\ HeaderValueToStr(ct.v).ok THEN Some(ct.v) ELSE NoneOpt

\* C12: payload returns Ok(None), and never an error, for a request that has
\* no content-type header or whose content type is neither application/json
\* nor application/x-www-form-urlencoded, whatever its body holds.
C12_OtherContentTypeIsNone ==
    (Parsed /\ (~ContentType.some \/
                ContentType.v \notin {APPLICATION_JSON, APPLICATION_FORM})) =>
        parsed.result = Ok(NoneOpt)

C12_Witness ==
    /\ Parsed
    /\ ~HeaderGet(req.headers, CONTENT_TYPE).some
    /\ req.body = BodyBinary(<<255>>)
    /\ parsed.result = Ok(NoneOpt)

\* the media type of a Content-Type value: the text before the first ';',
\* without the spaces around it, in lower case
MediaType(ct) ==
    LET semis == {i \in 1..Len(ct) : ct[i] = ";"}
        head == IF semis = {} THEN ct ELSE SubSeq(ct, 1, Least(semis) - 1)
        inked == {i \in 1..Len(head) : head[i] \notin {" ", "<TAB>"}}
        token == IF inked = {} THEN <<>>
                 ELSE SubSeq(head, Least(inked), Greatest(inked))
    IN  [i \in 1..Len(token) |-> ToLowerChar(token[i])]

\* what the JSON and the form decoder make of the body of the request
JsonOfBody == serde_json_from_slice(parsed.type, Body_as_ref(req.body))
FormOfBody == serde_urlencoded_from_bytes(parsed.type, Body_as_ref(req.body))

\* the result of payload that runs decoder, whose errors are variant
Decoded(decoder, variant) ==
    /\ decoder.ok => parsed.result = Ok(Some(decoder.v))
    /\ ~decoder.ok =>
           /\ ~parsed.result.ok
           /\ SubSeq(parsed.result.err, 1, 2) = <<"PayloadError", variant>>

\* C13: payload recognizes the content type by its media type, ignoring case
\* and parameters: "Application/JSON" and "application/json; charset=utf-8"
\* select the JSON decoder as "application/json" does, and likewise for
\* application/x-www-form-urlencoded.
C13_ContentTypeMatchIsLoose ==
    (Parsed /\ ContentType.some) =>
        /\ MediaType(ContentType.v) = APPLICATION_JSON =>
               Decoded(JsonOfBody, "Json")
        /\ MediaType(ContentType.v) = APPLICATION_FORM =>
               Decoded(FormOfBody, "WwwFormUrlEncoded")

C15_EmptyBodyIsNone ==
    (Parsed /\ req.body = BodyEmpty) => parsed.result = Ok(NoneOpt)

(***************************************************************************)
(* Properties of Body.                                                     *)
(***************************************************************************)
\* Body::from has been applied to the source
Converted == source # None /\ converted # None

\* the body has been serialized
Serialized == Converted /\ serialized # None

\* C16: Body::from is total and its variant follows from the type of the
\* source alone: &str, String and Cow<str> (borrowed or owned) give Text,
\* &[u8], Vec<u8> and Cow<[u8]> (borrowed or owned) give Binary, () gives
\* Empty, as Body::default() does; Text and Binary hold the bytes of the
\* source.
C16_BodyFromFollowsSourceType ==
    Converted =>
        /\ source.type \in TextTypes =>
               /\ converted.kind = "Text"
               /\ Body_as_ref(converted) = Utf8(source.s)
        /\ source.type \in BytesTypes =>
               /\ converted.kind = "Binary"
               /\ Body_as_ref(converted) = source.b
        /\ source.type \in {"()", "default"} =>
               /\ converted = BodyEmpty
               /\ Body_as_ref(converted) = <<>>
        /\ converted.kind \in {"Empty", "Text", "Binary"}

C16_Witness ==
    /\ Converted
    /\ source.type = "Cow<[u8]>" /\ source.variant = "Borrowed"
    /\ converted = BodyBinary(<<98, 97, 114>>)

\* C17: a Body serializes to JSON null when it is Empty, to the JSON string s
\* when it is the Text built from the string s, and to the JSON string of the
\* standard base64 encoding of b when it is Binary(b): four characters for
\* every three bytes, the last group padded with '='.
C17_BodySerialization ==
    Serialized =>
        /\ converted.kind = "Empty" => serialized = Ok(JNull)
        /\ source.type \in TextTypes => serialized = Ok(JStr(source.s))
        /\ converted.kind = "Binary" =>
               /\ serialized = Ok(JStr(Base64Display(converted.bytes)))
               /\ Len(serialized.v.s) = 4 * ((Len(converted.bytes) + 2) \div 3)
               /\ ValidBase64(serialized.v.s)
        /\ converted = BodyBinary(<<98, 97, 114>>) =>
               serialized = Ok(JStr(<<"Y", "m", "F", "y">>))
        /\ converted = BodyBinary(<<255>>) =>
               serialized = Ok(JStr(<<"/", "w", "=", "=">>))

C17_Witness ==
    /\ Serialized
    /\ source.type = "String"
    /\ source.s = <<"a", "<E9>">>
    /\ converted = BodyText(<<97, 195, 169>>)
    /\ serialized = Ok(JStr(<<"a", "<E9>">>))

\* C18: for every byte sequence b, base64-decoding the string that
\* Body::Binary(b) serializes to gives b, and an event that carries the string
\* as its body with isBase64Encoded true is assembled into a request whose
\* body is Binary(b).
C18_BinaryRoundTrip ==
    (Serialized /\ converted.kind = "Binary") =>
        /\ serialized.ok
        /\ base64_decode(serialized.v.s) = {Ok(converted.bytes)}
        /\ AssemblyOver =>
               /\ event.body = serialized.v
               /\ event.isBase64Encoded = JBool(TRUE)
               /\ req # None
               /\ req.body = BodyBinary(converted.bytes)

C18_Witness ==
    /\ Serialized
    /\ converted = BodyBinary(<<255, 0>>)
    /\ pc = "assembled"
    /\ event.body = JStr(<<"/", "w", "A", "=">>)
    /\ req.body = BodyBinary(<<255, 0>>)

\* the byte sequence is the UTF-8 encoding of some text: bytes below 0x80
\* and the pair 0xC3 0xA9, over the bytes of the model
RECURSIVE WellFormedUtf8(_)
WellFormedUtf8(b) ==
    \/ b = <<>>
    \/ b # <<>> /\ b[1] < 128 /\ WellFormedUtf8(Tail(b))
    \/ Len(b) >= 2 /\ b[1] = 195 /\ b[2] = 169
           /\ WellFormedUtf8(SubSeq(b, 3, Len(b)))

\* C24: serializing a Text body whose bytes are not valid UTF-8 fails with a
\* serialization error and gives no string, whereas serializing a Binary
\* body succeeds for every byte sequence.
C24_TextMustBeUtf8 ==
    Serialized =>
        /\ (converted.kind = "Text" /\ ~WellFormedUtf8(converted.bytes)) =>
               /\ ~serialized.ok
               /\ "v" \notin DOMAIN serialized
        /\ (converted.kind = "Text" /\ WellFormedUtf8(converted.bytes)) =>
               serialized.ok
        /\ converted.kind = "Binary" =>
               serialized.ok /\ serialized.v.t = "str"

C24_Witness ==
    /\ Serialized
    /\ converted = BodyText(<<97, 195>>)
    /\ ~serialized.ok

(***************************************************************************)
(* Properties of the conversion of a response into a reply.                *)
(***************************************************************************)
\* the handler has returned a response and the invocation is over
Responded == pc = "done" /\ result # None /\ result.ok

\* the body of the response that the handler returned
ResponseBody == into_response(result.v).body

\* C19: a response whose body is Empty gives a reply without a body field
\* (left out of the JSON, not null); a response whose body is Text gives a
\* reply whose body is the lossy UTF-8 decoding of the bytes, so that the
\* conversion of a Text body never fails, whatever its bytes.
C19_ReplyBodyOfEmptyAndText ==
    Responded =>
        /\ ResponseBody.kind = "Empty" =>
               /\ outcome = [kind |-> "reply"]
               /\ reply.body = NoneOpt
               /\ "body" \notin DOMAIN wire
        /\ ResponseBody.kind = "Text" =>
               /\ outcome = [kind |-> "reply"]
               /\ reply.body = Some(Utf8Lossy(ResponseBody.bytes))
               /\ wire["body"] = JStr(Utf8Lossy(ResponseBody.bytes))
        /\ ResponseBody = BodyText(<<104, 195, 169>>) =>
               wire["body"] = JStr(<<"h", "<E9>">>)
        /\ ResponseBody = BodyText(<<104, 255>>) =>
               wire["body"] = JStr(<<"h", "<FFFD>">>)
        /\ ResponseBody = BodyText(<<195, 255, 169>>) =>
               wire["body"] = JStr(<<"<FFFD>", "<FFFD>", "<FFFD>">>)

C19_Witness ==
    /\ Responded
    /\ ResponseBody = BodyText(<<104, 255>>)
    /\ outcome = [kind |-> "reply"]
    /\ DOMAIN wire = {"statusCode", "body"}
    /\ wire["body"] = JStr(<<"h", "<FFFD>">>)

\* C20: converting a response whose Text body is not valid UTF-8 is a fatal
\* error: the invocation ends in an error and no reply is emitted, rather
\* than a reply whose body has bytes replaced or cut.
C20_NonUtf8TextIsFatal ==
    (Responded /\ ResponseBody.kind = "Text" /\
     ~FromUtf8(ResponseBody.bytes).ok) =>
        /\ outcome.kind = "error"
        /\ reply = None
        /\ wire = None

(***************************************************************************)
(* Properties of the serialization of a reply.                             *)
(***************************************************************************)
\* a response has been built and serialized
Built == pc = "built"

\* the text {"statusCode":200}
DefaultText ==
    <<"{", "<DQUOTE>", "s","t","a","t","u","s","C","o","d","e", "<DQUOTE>",
      ":", "2", "0", "0", "}">>

\* the text {"statusCode":200,"body":"foo"}
FooText ==
    <<"{", "<DQUOTE>", "s","t","a","t","u","s","C","o","d","e", "<DQUOTE>",
      ":", "2", "0", "0", ",", "<DQUOTE>", "b","o","d","y", "<DQUOTE>", ":",
      "<DQUOTE>", "f", "o", "o", "<DQUOTE>", "}">>

\* C21: in the serialized reply statusCode is always present, headers is
\* present iff the header map is not empty, body iff a body is set, and
\* isBase64Encoded iff the flag is true; so the default response serializes
\* to exactly {"statusCode":200} and the one with body "foo" to exactly
\* {"statusCode":200,"body":"foo"}.
C21_FieldsPresentIffSet ==
    Built =>
        /\ "statusCode" \in DOMAIN wire
        /\ wire["statusCode"] = JNum(reply.status_code)
        /\ "headers" \in DOMAIN wire <=> DOMAIN reply.headers # {}
        /\ "body" \in DOMAIN wire <=> reply.body.some
        /\ "isBase64Encoded" \in DOMAIN wire <=> reply.is_base64_encoded
        /\ DOMAIN wire \subseteq Range(ResponseFields)
        /\ reply = Builder_build(Builder_new) => serialized = Ok(DefaultText)
        /\ reply = Builder_build(Builder_body(Builder_new, Some(FOO))) =>
               serialized = Ok(FooText)

C21_Witness ==
    /\ Built
    /\ reply.is_base64_encoded
    /\ reply.body = Some(FOO)
    /\ DOMAIN reply.headers = {<<"a">>}
    /\ DOMAIN wire = Range(ResponseFields)

\* the body that Into<Body> gives for the value b, by the type of b
BodyFromValue(b) ==
    CASE b.t = "unit" -> BodyEmpty
      [] b.t = "str" -> BodyText(Utf8(b.v))
      [] b.t = "bytes" -> BodyBinary(b.v)
      [] b.t = "body" -> b.v

\* C22: when the handler returns Ok(v) for a value v that is Into<Body>, the
\* reply is built from a response with status 200, no header and the body
\* Body::from(v), so its statusCode is 200; when it returns a Response<B>,
\* the status and the headers of the response are kept as they are and only
\* the body is converted with Into<Body>.
C22_IntoResponse ==
    Responded =>
        LET v == result.v
            response == into_response(v)
        IN  /\ reply = GatewayResponse_from(response)
            /\ v.t # "response" =>
                   /\ response = Response(200, <<>>, BodyFromValue(v))
                   /\ reply.status_code = 200
                   /\ wire["statusCode"] = JNum(200)
                   /\ "headers" \notin DOMAIN wire
            /\ v.t = "response" =>
                   /\ response.status = v.status
                   /\ response.headers = v.headers
                   /\ response.body = BodyFromValue(v.body)
                   /\ reply.status_code = v.status
                   /\ \A i \in 1..Len(v.headers) :
                          v.headers[i][1] \in DOMAIN reply.headers

C22_Witness ==
    /\ Responded
    /\ result.v.t = "response"
    /\ result.v.status = 404
    /\ result.v.headers # <<>>
    /\ result.v.body = [t |-> "str", v |-> <<"a", "<E9>">>]
    /\ reply.status_code = 404
    /\ DOMAIN reply.headers # {}
    /\ reply.body = Some(<<"a", "<E9>">>)

(***************************************************************************)
(* Properties of StrMap.                                                   *)
(***************************************************************************)
\* the pairs of the map that the StrMap was built from
PairsOf(M) == {<<k, M[k]>> : k \in DOMAIN M}

\* C23: for a StrMap built from the map M, get(k) is Some(M[k]) when k is a
\* key of M and None otherwise; is_empty() holds iff M has no entry; and an
\* iterator hands out pairs of M only, none of them twice, and when it ends
\* it has handed out every pair of M exactly once.
C23_StrMapReads ==
    pc = "strmap" =>
        /\ (observed # None /\ observed.op = "get") =>
               IF observed.key \in DOMAIN source
               THEN observed.value = Some(source[observed.key])
               ELSE observed.value = NoneOpt
        /\ (observed # None /\ observed.op = "is_empty") =>
               (observed.value.some <=> Cardinality(DOMAIN source) = 0)
        /\ \A i \in 1..Len(iters) :
               LET it == iters[i]
               IN  /\ Range(it.yielded) \subseteq PairsOf(source)
                   /\ Cardinality(Range(it.yielded)) = Len(it.yielded)
                   /\ Len(it.yielded) + Cardinality(it.keys)
                          = Cardinality(DOMAIN source)
                   /\ it.state = "exhausted" =>
                          Range(it.yielded) = PairsOf(source)

C23_Witness ==
    /\ pc = "strmap"
    /\ Cardinality(DOMAIN source) = 2
    /\ Len(iters) = 1
    /\ iters[1].handle = 2
    /\ iters[1].state = "exhausted"
    /\ iters[1].yielded = << <<"baz", "boom">>, <<"foo", "bar">> >>
    /\ observed = [op |-> "get", handle |-> 2, key |-> "foo",
                   value |-> Some("bar")]

\* the value that the header table hs holds last under the name
LastValue(hs, name) == hs[Greatest({i \in 1..Len(hs) : hs[i][1] = name})][2]

\* the names of the header table hs
NamesOf(hs) == {hs[i][1] : i \in 1..Len(hs)}

\* C25 as stated: when the header table of the response holds several values
\* for a name, the header map of the reply has one entry for the name, whose
\* value is the last occurrence; every name of the response is in the map.
C25_LastHeaderWins ==
    (Responded /\ result.v.t = "response") =>
        /\ DOMAIN reply.headers = NamesOf(result.v.headers)
        /\ \A name \in NamesOf(result.v.headers) :
               reply.headers[name] = LastValue(result.v.headers, name)

\* C25, amended: the header map of the reply has exactly one entry for each
\* name of the header table of the response, and its value is the last value
\* of the name when that value is visible ASCII (or tab), and the empty
\* string when it is not.
C25_LastHeaderWinsAsText ==
    (Responded /\ result.v.t = "response") =>
        /\ DOMAIN reply.headers = NamesOf(result.v.headers)
        /\ \A name \in NamesOf(result.v.headers) :
               LET last == LastValue(result.v.headers, name)
               IN  reply.headers[name] =
                       IF Range(last) \subseteq VisibleAscii \cup {"<TAB>"}
                       THEN last ELSE <<>>
        /\ result.v.headers # <<>> => wire["headers"] = reply.headers

C25_Witness ==
    /\ Responded
    /\ result.v.t = "response"
    /\ result.v.headers = << <<<<"b">>, <<"b">>>>, <<<<"b">>, <<"c">>>> >>
    /\ reply.headers = [name \in {<<"b">>} |-> <<"c">>]

\* C26: every reply that comes from converting the response of a handler
\* has is_base64_encoded false, whatever the status, the headers and the
\* body, a Binary body included; so the field isBase64Encoded is in no reply
\* that the handler wrapper emits.
C26_ReplyNeverBase64 ==
    /\ reply # None =>
           /\ reply.is_base64_encoded = FALSE
           /\ "isBase64Encoded" \notin DOMAIN wire
    /\ Responded => reply # None /\ wire # None

C26_Witness ==
    /\ Responded
    /\ result.v.t = "response"
    /\ result.v.status = 404
    /\ result.v.headers # <<>>
    /\ ResponseBody = BodyBinary(<<255, 104>>)
    /\ reply.is_base64_encoded = FALSE
    /\ DOMAIN wire = {"statusCode", "headers", "body"}

\* the handles that have not been dropped
LiveHandles == {h \in 1..Len(handles) : handles[h].live}

\* C27: a StrMap does not change once it is built: after any sequence of
\* clone, get, is_empty, iter and drop on any of its handles, every handle
\* that is live, the original or a clone, still finds exactly the entries
\* that the map was built from, and dropping a handle leaves the map of the
\* other handles in place.
C27_StrMapImmutable ==
    pc = "strmap" =>
        /\ \A h \in LiveHandles :
               /\ ~arcs[handles[h].arc].freed
               /\ Inner(h) = {source}
               /\ \A key \in StrMapKeys :
                      \A inner \in Inner(h) :
                          StrMap_get(inner, key) = StrMap_get(source, key)
        /\ \A a \in 1..Len(arcs) :
               /\ arcs[a].strong =
                      Cardinality({h \in LiveHandles : handles[h].arc = a})
               /\ arcs[a].freed <=> arcs[a].strong = 0
        /\ \A i \in 1..Len(iters) : iters[i].handle \in LiveHandles
        /\ (observed # None /\ observed.op = "get") =>
               observed.value = StrMap_get(source, observed.key)

C27_Witness ==
    /\ pc = "strmap"
    /\ Len(handles) = 2
    /\ ~handles[1].live
    /\ handles[2].live
    /\ DOMAIN source = {"foo", "baz"}
    /\ arcs[1].inner = source /\ ~arcs[1].freed
    /\ Len(iters) = 1 /\ iters[1].handle = 2 /\ Len(iters[1].yielded) = 2
    /\ observed = [op |-> "get", handle |-> 2, key |-> "baz",
                   value |-> Some("boom")]

====
